---- MODULE Spec2Model ----
(***************************************************************************)
(* fastavro/compile/ast_compile.py: the schema-to-reader compiler          *)
(* (SchemaParser), the Python AST it generates, and the execution of that  *)
(* AST against a byte source.                                              *)
(*                                                                         *)
(* Python objects are modelled as records:                                 *)
(*   a schema  str   [py |-> "str",  v |-> "long"]                         *)
(*             list  [py |-> "list", v |-> << schema, ... >>]              *)
(*             dict  [py |-> "dict", type |-> ..., name |-> ..., ...]      *)
(*                   (DOMAIN of the record = the keys of the dict)         *)
(*   a value   [t |-> tag, n |-> integer, s |-> string]                    *)
(*   an AST node [k |-> node class, ...fields of the node...]              *)
(* The interpreter is CPython (platform.python_implementation()).          *)
(***************************************************************************)
EXTENDS Integers, Sequences, FiniteSets, TLC

(***************************************************************************)
(* Bounds of the model.                                                    *)
(***************************************************************************)
\* Most blocks in a container, and most records in a block.
MaxBlocks == 2
MaxRecords == 2
\* Longest byte source each of two concurrent invocations is run against.
MaxBoth == 4
\* Longest byte source an invocation is run against.
MaxSrc == 6
\* Deepest stack of reader frames (root reader plus nested _read_* calls).
MaxDepth == 4

(***************************************************************************)
(* Python values.                                                          *)
(***************************************************************************)
PyNone == [t |-> "none", n |-> 0, s |-> ""]
PyInt(i) == [t |-> "int", n |-> i, s |-> ""]
PyStr(x) == [t |-> "str", n |-> 0, s |-> x]
PyBytes(x) == [t |-> "bytes", n |-> 0, s |-> x]
PyBool(b) == [t |-> "bool", n |-> IF b THEN 1 ELSE 0, s |-> ""]
PyFloat(bits) == [t |-> "float", n |-> bits, s |-> ""]
\* A reference to a dict or list object of the heap.
PyRef(a) == [t |-> "ref", n |-> a, s |-> ""]
\* The byte source handed to the reader (the argument src).
PySrc == [t |-> "src", n |-> 0, s |-> ""]
\* The result of a logical-type parser: its name, the raw value it was given.
PyLogical(parser, raw, params) ==
    [t |-> parser, n |-> raw.n, s |-> raw.s \o params]

(***************************************************************************)
(* Module constants of ast_compile.py.                                     *)
(***************************************************************************)
PRIMITIVES ==
    {"boolean", "bytes", "double", "float", "int", "long", "null", "string"}

PRIMITIVE_READERS ==
    [string |-> "read_utf8", int |-> "read_long", long |-> "read_long",
     float |-> "read_float", double |-> "read_double",
     boolean |-> "read_boolean", bytes |-> "read_bytes", null |-> "read_null"]

LOGICAL_READERS ==
    << <<"decimal", "read_decimal">>, <<"uuid", "read_uuid">>,
       <<"date", "read_date">>, <<"time-millis", "read_time_millis">>,
       <<"time-micros", "read_time_micros">>,
       <<"timestamp-millis", "read_timestamp_millis">>,
       <<"timestamp-micros", "read_timestamp_micros">> >>

(***************************************************************************)
(* Characters and names.                                                   *)
(***************************************************************************)
Letters ==
    {"a", "b", "c", "d", "e", "f", "g", "h", "i", "j", "k", "l", "m", "n",
     "o", "p", "q", "r", "s", "t", "u", "v", "w", "x", "y", "z",
     "A", "B", "C", "D", "E", "F", "G", "H", "I", "J", "K", "L", "M", "N",
     "O", "P", "Q", "R", "S", "T", "U", "V", "W", "X", "Y", "Z"}
DigitChars == {"0", "1", "2", "3", "4", "5", "6", "7", "8", "9"}

Ch(str, i) == SubSeq(str, i, i)

\* re.sub("[^0-9a-zA-Z_]+", "_", name): every maximal run of other
\* characters becomes one underscore.
RECURSIVE SubNonIdent(_, _, _)
SubNonIdent(str, i, inRun) ==
    IF i > Len(str) THEN ""
    ELSE IF Ch(str, i) \in Letters \cup DigitChars \cup {"_"}
         THEN Ch(str, i) \o SubNonIdent(str, i + 1, FALSE)
         ELSE (IF inRun THEN "" ELSE "_") \o SubNonIdent(str, i + 1, TRUE)

\* lines 890-899
_clean_name(name) ==
    LET n1 == IF Ch(name, 1) \in Letters \cup {"_"} THEN name ELSE "_" \o name
        n2 == SubNonIdent(n1, 1, FALSE)
    IN IF \A i \in 1..Len(n2) : Ch(n2, i) = "_" THEN "v" ELSE n2

\* lines 225-227
_named_type_reader_name(name) == "_read_" \o _clean_name(name)

(***************************************************************************)
(* SchemaParser.new_variable, lines 128-136.  self is the parser:          *)
(* [schema, variable_name_counts, recursive_types, pure_python].           *)
(***************************************************************************)
CountOf(counts, name) == IF name \in DOMAIN counts THEN counts[name] ELSE 0

new_variable(self, name) ==
    LET count == CountOf(self.variable_name_counts, name)
        counts2 == [x \in DOMAIN self.variable_name_counts \cup {name} |->
                      IF x = name THEN count + 1
                      ELSE self.variable_name_counts[x]]
    IN [name |-> IF count = 0 THEN name ELSE name \o ToString(count),
        self |-> [self EXCEPT !.variable_name_counts = counts2]]

(***************************************************************************)
(* AST nodes (the subset of ast the compiler emits).                       *)
(***************************************************************************)
Name(id) == [k |-> "Name", id |-> id]
Constant(v) == [k |-> "Constant", value |-> v]
Call(func, args, keywords) ==
    [k |-> "Call", func |-> func, args |-> args, keywords |-> keywords]
Attribute(value, attr) == [k |-> "Attribute", value |-> value, attr |-> attr]
Compare(left, op, right) ==
    [k |-> "Compare", left |-> left, op |-> op, right |-> right]
UnaryUSub(operand) == [k |-> "UnaryOp", operand |-> operand]
IfExp(test, body, orelse) ==
    [k |-> "IfExp", test |-> test, body |-> body, orelse |-> orelse]
DictLiteral(keys, values) == [k |-> "Dict", keys |-> keys, values |-> values]
ListLiteral(elts) == [k |-> "List", elts |-> elts]
Subscript(value, slice) == [k |-> "Subscript", value |-> value, slice |-> slice]
keyword(argname, value) == [arg |-> argname, value |-> value]

Assign(target, value) == [k |-> "Assign", target |-> target, value |-> value]
If(test, body, orelse) ==
    [k |-> "If", test |-> test, body |-> body, orelse |-> orelse]
While(test, body) == [k |-> "While", test |-> test, body |-> body]
For(iter, body) == [k |-> "For", iter |-> iter, body |-> body]
Expr(value) == [k |-> "Expr", value |-> value]
Return(value) == [k |-> "Return", value |-> value]
FunctionDef(name, body) == [k |-> "FunctionDef", name |-> name, body |-> body]

\* What a _gen_* method hands back: the statements, the parser after the
\* new_variable calls it made, and the exception it raised ("" for none).
Gen(stmts, self) == [err |-> "", stmts |-> stmts, self |-> self]
Raise(err, self) == [err |-> err, stmts |-> <<>>, self |-> self]

\* Sequencing: what follows a call runs on its result g unless the call
\* raised, and then the exception goes on up.
Then(g, rest(_)) == IF g.err # "" THEN g ELSE rest(g)

IsStr(schema) == schema.py = "str"
IsList(schema) == schema.py = "list"
IsDict(schema) == schema.py = "dict"
Has(schema, key) == key \in DOMAIN schema

(***************************************************************************)
(* _gen_primitive_reader, lines 709-733.                                   *)
(***************************************************************************)
_gen_primitive_reader(self, primitive_type, src, dest) ==
    IF primitive_type = "null"
    THEN Gen(<<Assign(dest, Constant(PyNone))>>, self)
    ELSE Gen(<<Assign(dest, Call(Name(PRIMITIVE_READERS[primitive_type]),
                                  <<src>>, <<>>))>>, self)

(***************************************************************************)
(* _gen_fixed_reader, lines 687-707.                                       *)
(***************************************************************************)
_gen_fixed_reader(self, size, src, dest) ==
    IF self.pure_python
    THEN Gen(<<Assign(dest, Call(Attribute(src, "read_fixed"),
                                  <<Constant(PyInt(size))>>, <<>>))>>, self)
    ELSE Gen(<<Assign(dest, Call(Attribute(src, "read"),
                                  <<Constant(PyInt(size))>>, <<>>))>>, self)

(***************************************************************************)
(* _gen_enum_reader, lines 648-685.                                        *)
(***************************************************************************)
\* _gen_enum_reader that never hands the default to the lookup.
_gen_enum_reader_no_default(self, symbols, default, src, dest) ==
    LET enum_map ==
            DictLiteral([i \in 1..Len(symbols) |-> Constant(PyInt(i - 1))],
                        [i \in 1..Len(symbols) |-> Constant(PyStr(symbols[i]))])
        read == Call(Name("read_long"), <<src>>, <<>>)
    IN Gen(<<Assign(dest, Call(Attribute(enum_map, "get"), <<read>>, <<>>))>>,
           self)

_gen_enum_reader(self, symbols, default, src, dest) ==
    LET enum_map ==
            DictLiteral([i \in 1..Len(symbols) |-> Constant(PyInt(i - 1))],
                        [i \in 1..Len(symbols) |-> Constant(PyStr(symbols[i]))])
        read == Call(Name("read_long"), <<src>>, <<>>)
        args == IF default # PyNone THEN <<read, Constant(default)>>
                ELSE <<read>>
    IN Gen(<<Assign(dest, Call(Attribute(enum_map, "get"), args, <<>>))>>, self)

(***************************************************************************)
(* _gen_recursive_reader_call, lines 847-860.                              *)
(***************************************************************************)
\* _gen_recursive_reader_call that calls the reader of the whole schema.
_gen_recursive_reader_call_root(self, recursive_type_name, src, dest) ==
    Gen(<<Assign(dest, Call(Name("reader"), <<src>>, <<>>))>>, self)

\* _gen_recursive_reader_call that makes no call.
_gen_recursive_reader_call_none(self, recursive_type_name, src, dest) ==
    Gen(<<Assign(dest, Constant(PyNone))>>, self)

_gen_recursive_reader_call(self, recursive_type_name, src, dest) ==
    LET funcname == _named_type_reader_name(recursive_type_name)
    IN Gen(<<Assign(dest, Call(Name(funcname), <<src>>, <<>>))>>, self)

(***************************************************************************)
(* _call_fastavro_logical_reader, lines 862-882.                           *)
(***************************************************************************)
_call_fastavro_logical_reader(self, primitive_type, parser, src, dest) ==
    LET nv == new_variable(self, "raw_" \o primitive_type)
        parse == Call(Name(parser), <<Name(nv.name)>>, <<>>)
    IN Then(_gen_primitive_reader(nv.self, primitive_type, src, Name(nv.name)),
            LAMBDA raw : Gen(raw.stmts \o <<Assign(dest, parse)>>, raw.self))

(***************************************************************************)
(* _gen_decimal_reader, lines 763-799.                                     *)
(***************************************************************************)
_gen_decimal_reader(self, schema, src, dest) ==
    LET scale == IF Has(schema, "scale") THEN schema.scale ELSE 0
        precision == IF Has(schema, "precision") THEN schema.precision ELSE 0
        nv == new_variable(self, "raw_decimal")
        raw_bytes_dest == Name(nv.name)
        parse ==
            Call(Name("read_decimal"), <<Name(nv.name)>>,
                 <<keyword("writer_schema",
                           DictLiteral(<<Constant(PyStr("precision")),
                                         Constant(PyStr("scale"))>>,
                                       <<Constant(PyInt(precision)),
                                         Constant(PyInt(scale))>>))>>)
    IN IF precision <= 0 \/ scale < 0 \/ scale > precision
       THEN Raise("LogicalTypeError", self)
       ELSE IF schema.type = "bytes"
       THEN Then(_gen_primitive_reader(nv.self, "bytes", src, raw_bytes_dest),
                 LAMBDA raw : Gen(raw.stmts \o <<Assign(dest, parse)>>, raw.self))
       ELSE IF schema.type = "fixed"
       THEN IF ~Has(schema, "size") THEN Raise("KeyError", nv.self)
            ELSE Then(_gen_fixed_reader(nv.self, schema.size, src, raw_bytes_dest),
                      LAMBDA raw : Gen(raw.stmts \o <<Assign(dest, parse)>>,
                                       raw.self))
       ELSE Raise("LogicalTypeError", nv.self)

(***************************************************************************)
(* _gen_uuid_reader ... _gen_timestamp_micros_reader, lines 801-845: each  *)
(* checks the physical type and calls _call_fastavro_logical_reader.       *)
(***************************************************************************)
LogicalOver(self, schema, physical, parser, src, dest) ==
    IF schema.type # physical THEN Raise("LogicalTypeError", self)
    ELSE _call_fastavro_logical_reader(self, physical, parser, src, dest)

\* A uuid reader that does not look at the physical type.
_gen_uuid_reader_any_type(self, schema, src, dest) ==
    _call_fastavro_logical_reader(self, "string", "read_uuid", src, dest)

_gen_uuid_reader(self, schema, src, dest) ==
    LogicalOver(self, schema, "string", "read_uuid", src, dest)
_gen_date_reader(self, schema, src, dest) ==
    LogicalOver(self, schema, "int", "read_date", src, dest)
_gen_time_millis_reader(self, schema, src, dest) ==
    LogicalOver(self, schema, "int", "read_time_millis", src, dest)
_gen_time_micros_reader(self, schema, src, dest) ==
    LogicalOver(self, schema, "long", "read_time_micros", src, dest)
_gen_timestamp_millis_reader(self, schema, src, dest) ==
    LogicalOver(self, schema, "long", "read_timestamp_millis", src, dest)
_gen_timestamp_micros_reader(self, schema, src, dest) ==
    LogicalOver(self, schema, "long", "read_timestamp_micros", src, dest)

(***************************************************************************)
(* _gen_block_reader, lines 567-646.                                       *)
(***************************************************************************)
\* _gen_block_reader without the read of the byte size of a negative block.
_gen_block_reader_keeps_size(self, for_each_message, src) ==
    LET nv == new_variable(self, "blocksize")
        blocksize_varname == nv.name
        read_count ==
            Assign(Name(blocksize_varname),
                   Call(Name("read_long"), <<src>>, <<>>))
        flip_blocksize_sign ==
            Assign(Name(blocksize_varname), UnaryUSub(Name(blocksize_varname)))
        if_negative_blocksize ==
            If(Compare(Name(blocksize_varname), "Lt", Constant(PyInt(0))),
               <<flip_blocksize_sign>>, <<>>)
        read_loop ==
            For(Call(Name("range"), <<Name(blocksize_varname)>>, <<>>),
                for_each_message)
    IN Gen(<<read_count,
             While(Compare(Name(blocksize_varname), "NotEq", Constant(PyInt(0))),
                   <<if_negative_blocksize, read_loop, read_count>>)>>, nv.self)

_gen_block_reader(self, for_each_message, src) ==
    LET nv == new_variable(self, "blocksize")
        blocksize_varname == nv.name
        blocksize_dest == Name(blocksize_varname)
        flip_blocksize_sign ==
            Assign(Name(blocksize_varname), UnaryUSub(Name(blocksize_varname)))
        read_a_long == Expr(Call(Name("read_long"), <<src>>, <<>>))
        if_negative_blocksize ==
            If(Compare(Name(blocksize_varname), "Lt", Constant(PyInt(0))),
               <<flip_blocksize_sign, read_a_long>>, <<>>)
        read_loop ==
            For(Call(Name("range"), <<Name(blocksize_varname)>>, <<>>),
                for_each_message)
    IN Then(_gen_primitive_reader(nv.self, "long", src, blocksize_dest),
         LAMBDA first :
         Then(_gen_primitive_reader(first.self, "long", src, blocksize_dest),
           LAMBDA again :
           Gen(first.stmts
               \o <<While(Compare(Name(blocksize_varname), "NotEq",
                                  Constant(PyInt(0))),
                          <<if_negative_blocksize, read_loop>> \o again.stmts)>>,
               again.self)))

\* The name of the variable an array or a map is built in: lines 463-471 and
\* 524-532.
ContainerName(prefix, item_schema) ==
    _clean_name(
        IF IsDict(item_schema)
        THEN IF Has(item_schema, "name") THEN prefix \o item_schema.name
             ELSE IF Has(item_schema, "type") THEN prefix \o item_schema.type
             ELSE prefix
        ELSE IF IsStr(item_schema) THEN prefix \o item_schema.v
        ELSE prefix)

RECURSIVE _gen_reader(_, _, _, _)
RECURSIVE _gen_union_reader(_, _, _, _)
RECURSIVE UnionChain(_, _, _, _, _, _)
RECURSIVE _gen_optional_reader(_, _, _, _, _)
RECURSIVE _gen_record_reader(_, _, _, _)
RECURSIVE RecordFields(_, _, _, _, _)
RECURSIVE _gen_array_reader(_, _, _, _)
RECURSIVE _gen_map_reader(_, _, _, _)
RECURSIVE _gen_logical_reader(_, _, _, _)

(***************************************************************************)
(* _gen_union_reader, lines 337-372.  UnionChain is its loop over the      *)
(* options from the i-th on: the If for option i, whose orelse holds the   *)
(* If for option i+1.                                                      *)
(***************************************************************************)
\* The loop of _gen_union_reader with option i tested against index i + 1.
UnionChainShifted(self, options, i, idx_var_ref, src, dest) ==
    IF i > Len(options) THEN Gen(<<>>, self)
    ELSE Then(_gen_reader(self, options[i], src, dest),
           LAMBDA body :
           Then(UnionChain(body.self, options, i + 1, idx_var_ref, src, dest),
             LAMBDA rest :
             Gen(<<If(Compare(idx_var_ref, "Eq", Constant(PyInt(i))),
                      body.stmts, rest.stmts)>>, rest.self)))

UnionChain(self, options, i, idx_var_ref, src, dest) ==
    IF i > Len(options) THEN Gen(<<>>, self)
    ELSE Then(_gen_reader(self, options[i], src, dest),
           LAMBDA body :
           Then(UnionChain(body.self, options, i + 1, idx_var_ref, src, dest),
             LAMBDA rest :
             Gen(<<If(Compare(idx_var_ref, "Eq", Constant(PyInt(i - 1))),
                      body.stmts, rest.stmts)>>, rest.self)))

_gen_union_reader(self, options, src, dest) ==
    IF Len(options) = 2 /\ IsStr(options[1]) /\ options[1].v = "null"
    THEN _gen_optional_reader(self, 1, options[2], src, dest)
    ELSE IF Len(options) = 2 /\ IsStr(options[2]) /\ options[2].v = "null"
    THEN _gen_optional_reader(self, 0, options[1], src, dest)
    ELSE LET nv == new_variable(self, "union_choice")
             idx_var == nv.name
         IN Then(_gen_primitive_reader(nv.self, "long", src, Name(idx_var)),
              LAMBDA read :
              Then(UnionChain(read.self, options, 1, Name(idx_var), src, dest),
                LAMBDA chain : Gen(read.stmts \o chain.stmts, chain.self)))

(***************************************************************************)
(* _gen_optional_reader, lines 374-410.                                    *)
(***************************************************************************)
\* _gen_optional_reader whose conditional expression reads the branch when
\* the index is not idx.
_gen_optional_reader_swapped(self, idx, schema, src, dest) ==
    LET is_populated ==
            Compare(Call(Name("read_long"), <<src>>, <<>>), "Eq",
                    Constant(PyInt(idx)))
    IN IF IsStr(schema) /\ schema.v \in DOMAIN PRIMITIVE_READERS
       THEN Gen(<<Assign(dest,
                         IfExp(is_populated,
                               Constant(PyNone),
                               Call(Name(PRIMITIVE_READERS[schema.v]),
                                    <<src>>, <<>>)))>>, self)
       ELSE Then(_gen_reader(self, schema, src, dest),
              LAMBDA body :
              Gen(<<If(is_populated, body.stmts,
                       <<Assign(dest, Constant(PyNone))>>)>>, body.self))

_gen_optional_reader(self, idx, schema, src, dest) ==
    LET is_populated ==
            Compare(Call(Name("read_long"), <<src>>, <<>>), "Eq",
                    Constant(PyInt(idx)))
    IN IF IsStr(schema) /\ schema.v \in DOMAIN PRIMITIVE_READERS
       THEN Gen(<<Assign(dest,
                         IfExp(is_populated,
                               Call(Name(PRIMITIVE_READERS[schema.v]),
                                    <<src>>, <<>>),
                               Constant(PyNone)))>>, self)
       ELSE Then(_gen_reader(self, schema, src, dest),
              LAMBDA body :
              Gen(<<If(is_populated, body.stmts,
                       <<Assign(dest, Constant(PyNone))>>)>>, body.self))

(***************************************************************************)
(* _gen_record_reader, lines 412-451.  RecordFields is its loop over       *)
(* schema["fields"] from the i-th on.                                      *)
(***************************************************************************)
RecordFields(self, fields, i, src, value_reference) ==
    IF i > Len(fields) THEN Gen(<<>>, self)
    ELSE Then(_gen_reader(self, fields[i].type, src,
                          Subscript(value_reference,
                                    Constant(PyStr(fields[i].name)))),
           LAMBDA read_statements :
           Then(RecordFields(read_statements.self, fields, i + 1, src,
                             value_reference),
             LAMBDA rest :
             Gen(read_statements.stmts \o rest.stmts, rest.self)))

_gen_record_reader(self, schema, src, dest) ==
    LET nv == new_variable(self, _clean_name(schema.name))
        value_name == nv.name
        value_reference == Name(value_name)
    IN Then(RecordFields(nv.self, schema.fields, 1, src, value_reference),
         LAMBDA fields :
         Gen(<<Assign(Name(value_name), DictLiteral(<<>>, <<>>))>>
             \o fields.stmts
             \o <<Assign(dest, value_reference)>>, fields.self))

(***************************************************************************)
(* _gen_array_reader, lines 453-513.                                       *)
(***************************************************************************)
_gen_array_reader(self, item_schema, src, dest) ==
    LET nv == new_variable(self, ContainerName("array_", item_schema))
        list_varname == nv.name
        assign_stmt == Assign(Name(list_varname), ListLiteral(<<>>))
        vv == new_variable(nv.self, "array_val")
        value_varname == vv.name
        list_append_method_call ==
            Expr(Call(Attribute(Name(list_varname), "append"),
                      <<Name(value_varname)>>, <<>>))
        assign_result == Assign(dest, Name(list_varname))
    IN Then(_gen_reader(vv.self, item_schema, src, Name(value_varname)),
         LAMBDA read_statements :
         Then(_gen_block_reader(read_statements.self,
                                read_statements.stmts
                                \o <<list_append_method_call>>, src),
           LAMBDA block :
           Gen(<<assign_stmt>> \o block.stmts \o <<assign_result>>, block.self)))

(***************************************************************************)
(* _gen_map_reader, lines 515-565.                                         *)
(***************************************************************************)
\* _gen_map_reader that reads one key, before the blocks.
_gen_map_reader_one_key(self, value_schema, src, dest) ==
    LET nv == new_variable(self, ContainerName("map_", value_schema))
        map_varname == nv.name
        assign_stmt == Assign(Name(map_varname), DictLiteral(<<>>, <<>>))
        kv == new_variable(nv.self, "key")
        key_varname == kv.name
        value_dest == Subscript(Name(map_varname), Name(key_varname))
    IN Then(_gen_primitive_reader(kv.self, "string", src, Name(key_varname)),
         LAMBDA read_key :
         Then(_gen_reader(read_key.self, value_schema, src, value_dest),
           LAMBDA read_value :
           Then(_gen_block_reader(read_value.self, read_value.stmts, src),
             LAMBDA block :
             Gen(<<assign_stmt>> \o read_key.stmts \o block.stmts
                 \o <<Assign(dest, Name(map_varname))>>, block.self))))

_gen_map_reader(self, value_schema, src, dest) ==
    LET nv == new_variable(self, ContainerName("map_", value_schema))
        map_varname == nv.name
        assign_stmt == Assign(Name(map_varname), DictLiteral(<<>>, <<>>))
        kv == new_variable(nv.self, "key")
        key_varname == kv.name
        value_dest == Subscript(Name(map_varname), Name(key_varname))
    IN Then(_gen_primitive_reader(kv.self, "string", src, Name(key_varname)),
         LAMBDA read_key :
         Then(_gen_reader(read_key.self, value_schema, src, value_dest),
           LAMBDA read_value :
           Then(_gen_block_reader(read_value.self,
                                  read_key.stmts \o read_value.stmts, src),
             LAMBDA block :
             Gen(<<assign_stmt>> \o block.stmts
                 \o <<Assign(dest, Name(map_varname))>>, block.self))))

\* A fallback that lets the LogicalTypeError go on up.
FallbackUncaught(tried, schema, src, dest) == tried

(***************************************************************************)
(* _gen_logical_reader, lines 735-761.  The fallback deletes the           *)
(* logicalType key from a copy of the schema.                              *)
(***************************************************************************)
WithoutKey(schema, key) == [x \in DOMAIN schema \ {key} |-> schema[x]]

\* try: the reader of the logical type; except LogicalTypeError: the reader
\* of the schema without its logicalType.
Fallback(tried, schema, src, dest) ==
    IF tried.err = "LogicalTypeError"
    THEN _gen_reader(tried.self, WithoutKey(schema, "logicalType"), src, dest)
    ELSE tried

_gen_logical_reader(self, schema, src, dest) ==
    Fallback(
        CASE schema.logicalType = "decimal" ->
                _gen_decimal_reader(self, schema, src, dest)
          [] schema.logicalType = "uuid" ->
                _gen_uuid_reader(self, schema, src, dest)
          [] schema.logicalType = "date" ->
                _gen_date_reader(self, schema, src, dest)
          [] schema.logicalType = "time-millis" ->
                _gen_time_millis_reader(self, schema, src, dest)
          [] schema.logicalType = "time-micros" ->
                _gen_time_micros_reader(self, schema, src, dest)
          [] schema.logicalType = "timestamp-millis" ->
                _gen_timestamp_millis_reader(self, schema, src, dest)
          [] schema.logicalType = "timestamp-micros" ->
                _gen_timestamp_micros_reader(self, schema, src, dest)
          [] OTHER -> Raise("LogicalTypeError", self),
        schema, src, dest)

(***************************************************************************)
(* _gen_reader, lines 267-335.                                             *)
(***************************************************************************)
\* A schema that is none of the kinds is passed over in silence.
UnsupportedIgnored(self, schema) == Gen(<<>>, self)

\* raise NotImplementedError(f"Schema type not implemented: {schema}")
Unsupported(self, schema) == Raise("NotImplementedError", self)

RecursiveNames(self) ==
    {self.recursive_types[i].name : i \in 1..Len(self.recursive_types)}

_gen_reader(self, schema, src, dest) ==
    IF IsStr(schema) /\ schema.v \in PRIMITIVES
    THEN _gen_primitive_reader(self, schema.v, src, dest)
    ELSE IF IsStr(schema) /\ schema.v \in RecursiveNames(self)
    THEN _gen_recursive_reader_call(self, schema.v, src, dest)
    ELSE IF IsList(schema)
    THEN _gen_union_reader(self, schema.v, src, dest)
    ELSE IF IsDict(schema) /\ Has(schema, "logicalType")
    THEN _gen_logical_reader(self, schema, src, dest)
    ELSE IF IsDict(schema) /\ ~Has(schema, "type")
    THEN Raise("KeyError", self)
    ELSE IF IsDict(schema) /\ schema.type \in DOMAIN PRIMITIVE_READERS
    THEN _gen_primitive_reader(self, schema.type, src, dest)
    ELSE IF IsDict(schema) /\ schema.type = "record"
    THEN _gen_record_reader(self, schema, src, dest)
    ELSE IF IsDict(schema) /\ schema.type = "array"
    THEN _gen_array_reader(self, schema.items, src, dest)
    ELSE IF IsDict(schema) /\ schema.type = "map"
    THEN _gen_map_reader(self, schema.values, src, dest)
    ELSE IF IsDict(schema) /\ schema.type = "fixed"
    THEN _gen_fixed_reader(self, schema.size, src, dest)
    ELSE IF IsDict(schema) /\ schema.type = "enum"
    THEN _gen_enum_reader(self, schema.symbols,
                          IF Has(schema, "default") THEN PyStr(schema.default)
                          ELSE PyNone, src, dest)
    ELSE Unsupported(self, schema)

(***************************************************************************)
(* generate_reader_func, lines 229-265 (CPython: no BinaryDecoder wrap).   *)
(***************************************************************************)
generate_reader_func(self, schema, name) ==
    LET nv == new_variable(self, "result")
        result_var == Name(nv.name)
    IN Then(_gen_reader(nv.self, schema, Name("src"), result_var),
         LAMBDA body :
         Gen(<<FunctionDef(name, body.stmts \o <<Return(result_var)>>)>>,
             body.self))

(***************************************************************************)
(* generate_module, lines 174-223: the reader of the schema, then one      *)
(* function per entry of self.recursive_types, in the order of the list    *)
(* (the import statements bind the names of the low-level readers).        *)
(***************************************************************************)
RECURSIVE RecursiveFuncs(_, _)
RecursiveFuncs(self, i) ==
    IF i > Len(self.recursive_types) THEN Gen(<<>>, self)
    ELSE Then(generate_reader_func(
                  self, self.recursive_types[i],
                  _named_type_reader_name(self.recursive_types[i].name)),
           LAMBDA func :
           Then(RecursiveFuncs(func.self, i + 1),
             LAMBDA rest : Gen(func.stmts \o rest.stmts, rest.self)))

generate_module(self) ==
    Then(generate_reader_func(self, self.schema, "reader"),
      LAMBDA reader :
      Then(RecursiveFuncs(reader.self, 1),
        LAMBDA recursive : Gen(reader.stmts \o recursive.stmts, recursive.self)))

(***************************************************************************)
(* compile, lines 138-172: exec of the generated module binds each         *)
(* FunctionDef, in order, to its name in the namespace; a later def of the *)
(* same name replaces the earlier one.  The namespace maps a function name *)
(* to the index of its FunctionDef in the module body.                     *)
(***************************************************************************)
ExecModule(body) ==
    [name \in {body[i].name : i \in 1..Len(body)} |->
        CHOOSE i \in 1..Len(body) :
            /\ body[i].name = name
            /\ \A j \in 1..Len(body) : body[j].name = name => j <= i]

(***************************************************************************)
(* The byte source and the low-level readers of fastavro._read.  A source  *)
(* is the bytes avail and the cursor pos; a read past the end sets eof.    *)
(***************************************************************************)
\* The bytes a byte source is made of: the encodings of the longs 0, -1, 1,
\* -2 and 2.
ByteVals == {0, 1, 2, 3, 4}
\* The bytes of the sources of two concurrent invocations and of the blocks
\* of a container: the longs 0 and 1.
BothVals == {0, 2}

Pow2(e) == 2 ^ e

\* The variable-length integer at pos: seven bits per byte, low group
\* first, the high bit set on every byte but the last.
RECURSIVE Varint(_, _, _, _)
Varint(avail, pos, shift, acc) ==
    IF pos >= Len(avail) THEN [eof |-> TRUE, n |-> 0, pos |-> pos]
    ELSE LET b == avail[pos + 1]
             acc2 == acc + (b % 128) * Pow2(shift)
         IN IF b >= 128 THEN Varint(avail, pos + 1, shift + 7, acc2)
            ELSE [eof |-> FALSE, n |-> acc2, pos |-> pos + 1]

\* (n >> 1) ^ -(n & 1)
ZigZag(n) == IF n % 2 = 0 THEN n \div 2 ELSE -((n + 1) \div 2)

\* The text of a run of bytes (byte 0 is "a", byte 1 is "b", ...).
ByteChars == "abcdefghijklmnopqrstuvwxyz"
RECURSIVE Text(_, _, _)
Text(avail, from, to) ==
    IF from > to THEN ""
    ELSE Ch(ByteChars, (avail[from] % 26) + 1) \o Text(avail, from + 1, to)

\* The little-endian integer of a run of bytes.
RECURSIVE Bits(_, _, _)
Bits(avail, from, to) ==
    IF from > to THEN 0 ELSE avail[from] + 256 * Bits(avail, from + 1, to)

\* A read result: the value, the cursor after it, eof (the source ended
\* inside the value) and err (the exception raised, "" for none).
Got(v, pos) == [v |-> v, pos |-> pos, eof |-> FALSE, err |-> ""]
Short(pos) == [v |-> PyNone, pos |-> pos, eof |-> TRUE, err |-> "EOFError"]
Bad(err, pos) == [v |-> PyNone, pos |-> pos, eof |-> FALSE, err |-> err]

read_long(avail, pos) ==
    LET r == Varint(avail, pos, 0, 0)
    IN IF r.eof THEN Short(Len(avail)) ELSE Got(PyInt(ZigZag(r.n)), r.pos)

ReadSized(avail, pos, make(_)) ==
    LET size == read_long(avail, pos)
    IN IF size.err # "" THEN size
       ELSE IF size.v.n < 0 THEN Bad("ValueError", size.pos)
       ELSE IF size.pos + size.v.n > Len(avail) THEN Short(Len(avail))
       ELSE Got(make(Text(avail, size.pos + 1, size.pos + size.v.n)),
                size.pos + size.v.n)

read_utf8(avail, pos) == ReadSized(avail, pos, PyStr)
read_bytes(avail, pos) == ReadSized(avail, pos, PyBytes)

read_boolean(avail, pos) ==
    IF pos >= Len(avail) THEN Short(Len(avail))
    ELSE Got(PyBool(avail[pos + 1] # 0), pos + 1)

ReadIeee(avail, pos, width) ==
    IF pos + width > Len(avail) THEN Short(Len(avail))
    ELSE Got(PyFloat(Bits(avail, pos + 1, pos + width)), pos + width)

read_float(avail, pos) == ReadIeee(avail, pos, 4)
read_double(avail, pos) == ReadIeee(avail, pos, 8)
read_null(avail, pos) == Got(PyNone, pos)

\* src.read(size) of a file object: the bytes that are left when fewer than
\* size are, and no exception.
src_read(avail, pos, size) ==
    IF pos + size > Len(avail)
    THEN [v |-> PyBytes(Text(avail, pos + 1, Len(avail))), pos |-> Len(avail),
          eof |-> TRUE, err |-> ""]
    ELSE Got(PyBytes(Text(avail, pos + 1, pos + size)), pos + size)

ReadPrimitive(fn, avail, pos) ==
    CASE fn = "read_long" -> read_long(avail, pos)
      [] fn = "read_utf8" -> read_utf8(avail, pos)
      [] fn = "read_bytes" -> read_bytes(avail, pos)
      [] fn = "read_boolean" -> read_boolean(avail, pos)
      [] fn = "read_float" -> read_float(avail, pos)
      [] fn = "read_double" -> read_double(avail, pos)
      [] fn = "read_null" -> read_null(avail, pos)

PrimitiveReaderNames ==
    {PRIMITIVE_READERS[x] : x \in DOMAIN PRIMITIVE_READERS}
LogicalReaderNames == {LOGICAL_READERS[i][2] : i \in 1..Len(LOGICAL_READERS)}

(***************************************************************************)
(* Execution of the generated code (CPython's evaluation of the AST).      *)
(* A machine m is what one statement runs on: env, the local variables of  *)
(* the running frame; heap, the dict and list objects; avail and pos, the  *)
(* byte source; eof, whether a read met its end; err, the exception raised *)
(* ("" for none); log, the low-level reads made so far; drop, whether the  *)
(* statement is an expression statement, whose value is thrown away.       *)
(***************************************************************************)
Val(v, m) == [v |-> v, m |-> m]

\* The value r of a subexpression, handed to what is evaluated next; After
\* stops at an exception.
With(r, rest(_)) == rest(r)
After(r, rest(_)) == IF r.m.err # "" THEN Val(PyNone, r.m) ELSE rest(r)

Fail(m, err) == Val(PyNone, [m EXCEPT !.err = err])

Numeric(v) == v.t \in {"int", "bool"}
PyEq(l, r) == IF Numeric(l) /\ Numeric(r) THEN l.n = r.n ELSE l = r
Truthy(v) ==
    CASE v.t = "none" -> FALSE
      [] v.t \in {"int", "bool", "float"} -> v.n # 0
      [] v.t \in {"str", "bytes"} -> v.s # ""
      [] OTHER -> TRUE

Bind(env, id, v) == [x \in DOMAIN env \cup {id} |-> IF x = id THEN v ELSE env[x]]

\* An allocation that hands out an object the heap already holds when it
\* is equal to the new one.
NewObjectShared(m, obj) ==
    IF \E a \in 1..Len(m.heap) : m.heap[a] = obj
    THEN Val(PyRef(CHOOSE a \in 1..Len(m.heap) : m.heap[a] = obj), m)
    ELSE Val(PyRef(Len(m.heap) + 1), [m EXCEPT !.heap = Append(m.heap, obj)])

NewObject(m, obj) ==
    Val(PyRef(Len(m.heap) + 1), [m EXCEPT !.heap = Append(m.heap, obj)])

\* d[key] = v on a dict object: the entry of an equal key is replaced where
\* it stands, a new key is added at the end.
DictSet(obj, key, v) ==
    IF \E i \in 1..Len(obj.keys) : obj.keys[i] = key
    THEN [obj EXCEPT !.vals =
             [i \in 1..Len(obj.keys) |->
                 IF obj.keys[i] = key THEN v ELSE obj.vals[i]]]
    ELSE [obj EXCEPT !.keys = Append(obj.keys, key), !.vals = Append(obj.vals, v)]

RECURSIVE Eval(_, _)
RECURSIVE EvalAll(_, _, _)

\* The values of the expressions from the i-th on, left to right.
EvalAll(es, i, m) ==
    IF i > Len(es) THEN [vs |-> <<>>, m |-> m]
    ELSE With(Eval(es[i], m),
           LAMBDA first :
           With(EvalAll(es, i + 1, first.m),
             LAMBDA rest : [vs |-> <<first.v>> \o rest.vs, m |-> rest.m]))

\* read_*(src): a low-level reader of fastavro._read on the byte source.
Logged(fn, r, m) ==
    IF r.err # ""
    THEN Val(PyNone, [m EXCEPT !.pos = r.pos, !.eof = m.eof \/ r.eof,
                               !.err = r.err])
    ELSE Val(r.v, [m EXCEPT !.pos = r.pos, !.eof = m.eof \/ r.eof,
                            !.log = Append(m.log, [fn |-> fn, at |-> m.pos,
                                                   v |-> r.v, drop |-> m.drop])])

CallPrimitive(fn, args, m) ==
    IF Len(args) # 1 \/ args[1].t # "src" THEN Fail(m, "TypeError")
    ELSE Logged(fn, ReadPrimitive(fn, m.avail, m.pos), m)

\* {0: sym0, 1: sym1, ...}.get(key[, default]) on a dict display of constants.
CallDictGet(display, args, m) ==
    LET hits == {i \in 1..Len(display.keys) :
                    PyEq(display.keys[i].value, args[1])}
    IN IF hits # {}
       THEN Val(display.values[CHOOSE i \in hits : \A j \in hits : j <= i].value, m)
       ELSE IF Len(args) >= 2 THEN Val(args[2], m)
       ELSE Val(PyNone, m)

\* obj.append(x) on a list object, src.read(n) on the byte source.
CallMethod(attr, obj, args, m) ==
    IF attr = "append"
    THEN IF obj.t = "ref" /\ m.heap[obj.n].kind = "list"
         THEN Val(PyNone, [m EXCEPT !.heap[obj.n].vals = Append(@, args[1])])
         ELSE Fail(m, "AttributeError")
    ELSE IF attr = "read" /\ obj.t = "src" /\ args[1].t = "int"
    THEN Logged("read", src_read(m.avail, m.pos, args[1].n), m)
    ELSE Fail(m, "AttributeError")

\* The parameters a logical-type parser is called with.
Keywords(e) ==
    IF Len(e.keywords) = 0 THEN ""
    ELSE "/" \o ToString(e.keywords[1].value.values[1].value.n)
         \o "/" \o ToString(e.keywords[1].value.values[2].value.n)

EvalCall(e, m) ==
    IF e.func.k = "Name"
    THEN After(EvalAll(e.args, 1, m),
           LAMBDA a :
           IF e.func.id \in PrimitiveReaderNames
           THEN CallPrimitive(e.func.id, a.vs, a.m)
           ELSE IF e.func.id \in LogicalReaderNames
           THEN Val(PyLogical(e.func.id, a.vs[1], Keywords(e)), a.m)
           ELSE Fail(a.m, "NameError"))
    ELSE IF e.func.attr = "get" /\ e.func.value.k = "Dict"
    THEN After(EvalAll(e.args, 1, m),
           LAMBDA a : CallDictGet(e.func.value, a.vs, a.m))
    ELSE After(Eval(e.func.value, m),
           LAMBDA obj :
           After(EvalAll(e.args, 1, obj.m),
             LAMBDA a : CallMethod(e.func.attr, obj.v, a.vs, a.m)))

CompareOp(op, l, r, m) ==
    IF op = "Eq" THEN Val(PyBool(PyEq(l, r)), m)
    ELSE IF op = "NotEq" THEN Val(PyBool(~PyEq(l, r)), m)
    ELSE IF Numeric(l) /\ Numeric(r) THEN Val(PyBool(l.n < r.n), m)
    ELSE Fail(m, "TypeError")

Eval(e, m) ==
    IF m.err # "" THEN Val(PyNone, m)
    ELSE CASE e.k = "Name" ->
                IF e.id \in DOMAIN m.env THEN Val(m.env[e.id], m)
                ELSE Fail(m, "UnboundLocalError")
           [] e.k = "Constant" -> Val(e.value, m)
           [] e.k = "Dict" ->
                After(EvalAll(e.keys, 1, m),
                  LAMBDA ks :
                  After(EvalAll(e.values, 1, ks.m),
                    LAMBDA vs :
                    NewObject(vs.m, [kind |-> "dict", keys |-> ks.vs,
                                     vals |-> vs.vs])))
           [] e.k = "List" ->
                After(EvalAll(e.elts, 1, m),
                  LAMBDA vs :
                  NewObject(vs.m, [kind |-> "list", keys |-> <<>>,
                                   vals |-> vs.vs]))
           [] e.k = "Compare" ->
                After(Eval(e.left, m),
                  LAMBDA l :
                  After(Eval(e.right, l.m),
                    LAMBDA r : CompareOp(e.op, l.v, r.v, r.m)))
           [] e.k = "UnaryOp" ->
                After(Eval(e.operand, m),
                  LAMBDA x :
                  IF Numeric(x.v) THEN Val(PyInt(-x.v.n), x.m)
                  ELSE Fail(x.m, "TypeError"))
           [] e.k = "IfExp" ->
                After(Eval(e.test, m),
                  LAMBDA t :
                  IF Truthy(t.v) THEN Eval(e.body, t.m)
                  ELSE Eval(e.orelse, t.m))
           [] e.k = "Call" -> EvalCall(e, m)

\* target = v, the value already evaluated: a name is bound in the frame, a
\* subscript evaluates the object, then the key, and stores into the object.
\* obj[key] = v
SetItem(obj, key, v, m) ==
    IF m.err # "" THEN m
    ELSE IF obj.t # "ref" \/ key.t = "ref" THEN [m EXCEPT !.err = "TypeError"]
    ELSE IF m.heap[obj.n].kind = "dict"
    THEN [m EXCEPT !.heap[obj.n] = DictSet(@, key, v)]
    ELSE IF key.t = "int" /\ key.n >= 0 /\ key.n < Len(m.heap[obj.n].vals)
    THEN [m EXCEPT !.heap[obj.n].vals[key.n + 1] = v]
    ELSE [m EXCEPT !.err = "IndexError"]

Store(target, v, m) ==
    IF m.err # "" THEN m
    ELSE IF target.k = "Name" THEN [m EXCEPT !.env = Bind(m.env, target.id, v)]
    ELSE With(Eval(target.value, m),
           LAMBDA obj :
           With(Eval(target.slice, obj.m),
             LAMBDA key : SetItem(obj.v, key.v, v, key.m)))

(***************************************************************************)
(* One invocation of the compiled reader: a stack of frames, each the code *)
(* still to run in one call and its local variables.  A statement is one   *)
(* step.                                                                   *)
(***************************************************************************)
Frame(func, code, env) == [func |-> func, code |-> code, env |-> env]
NoEnv == [x \in {} |-> PyNone]
Top(iv) == iv.stack[Len(iv.stack)]
ForIter(i, n, body) == [k |-> "ForIter", i |-> i, n |-> n, body |-> body]

Machine(iv, env, hp, chunk, drop) ==
    [env |-> env, heap |-> hp, avail |-> iv.src \o chunk, pos |-> Len(iv.src),
     eof |-> FALSE, err |-> "", log |-> iv.log, drop |-> drop]

Outcome(iv, m) == [iv |-> iv, heap |-> m.heap, eof |-> m.eof]

\* The invocation after an exception left the reader.
Raised(iv, m) ==
    Outcome([iv EXCEPT !.status = "raised", !.err = m.err, !.stack = <<>>,
                       !.src = SubSeq(m.avail, 1, m.pos), !.log = m.log], m)

\* The invocation after a statement of the top frame ran on m and left code
\* to run in that frame.
Goes(iv, m, code) ==
    IF m.err # "" THEN Raised(iv, m)
    ELSE Outcome([iv EXCEPT !.stack[Len(iv.stack)] =
                                Frame(Top(iv).func, code, m.env),
                            !.src = SubSeq(m.avail, 1, m.pos),
                            !.log = m.log], m)

IsUserCall(stmt) ==
    /\ stmt.k = "Assign"
    /\ stmt.value.k = "Call"
    /\ stmt.value.func.k = "Name"
    /\ stmt.value.func.id \notin PrimitiveReaderNames \cup LogicalReaderNames

\* dest = _read_X(src): the call pushes the frame of the function the module
\* namespace binds to the name; the assignment waits for its return.
PushFrame(iv, body, id, args, m) ==
    IF m.err # "" THEN Raised(iv, m)
    ELSE IF id \notin DOMAIN ExecModule(body)
    THEN Raised(iv, [m EXCEPT !.err = "NameError"])
    ELSE Outcome([iv EXCEPT !.stack =
                     Append(iv.stack,
                            Frame(id, body[ExecModule(body)[id]].body,
                                  Bind(NoEnv, "src", args[1])))], m)

ExecCall(iv, hp, body, stmt) ==
    With(EvalAll(stmt.value.args, 1, Machine(iv, Top(iv).env, hp, <<>>, FALSE)),
      LAMBDA a : PushFrame(iv, body, stmt.value.func.id, a.vs, a.m))

\* return value: the frame is popped; the root reader's value is the result
\* of the invocation, a nested call's value is stored by the assignment that
\* made the call.
\* The caller goes on after the assignment that made the call stored the
\* returned value.
Resume(iv, caller, m) ==
    IF m.err # "" THEN Raised(iv, m)
    ELSE Outcome([iv EXCEPT !.stack =
                     Append(SubSeq(iv.stack, 1, Len(iv.stack) - 2),
                            Frame(caller.func, Tail(caller.code), m.env)),
                            !.src = SubSeq(m.avail, 1, m.pos),
                            !.log = m.log], m)

PopFrame(iv, v, m) ==
    IF m.err # "" THEN Raised(iv, m)
    ELSE IF Len(iv.stack) = 1
    THEN Outcome([iv EXCEPT !.status = "returned", !.result = v,
                            !.stack = <<>>,
                            !.src = SubSeq(m.avail, 1, m.pos),
                            !.log = m.log], m)
    ELSE Resume(iv, iv.stack[Len(iv.stack) - 1],
                Store(Head(iv.stack[Len(iv.stack) - 1].code).target, v,
                      [m EXCEPT !.env = iv.stack[Len(iv.stack) - 1].env]))

ExecReturn(iv, hp, stmt, chunk) ==
    With(Eval(stmt.value, Machine(iv, Top(iv).env, hp, chunk, FALSE)),
      LAMBDA r : PopFrame(iv, r.v, r.m))

\* The first statement of the top frame, run with the bytes chunk following
\* the part of the source already read.
\* for _ in range(n): the iterations still to run stand in the code.
EnterFor(iv, n, m, body, rest) ==
    IF m.err = "" /\ n.t # "int"
    THEN Raised(iv, [m EXCEPT !.err = "TypeError"])
    ELSE Goes(iv, m, <<ForIter(0, n.n, body)>> \o rest)

ExecStmt(iv, hp, body, chunk) ==
    LET stmt == Head(Top(iv).code)
        rest == Tail(Top(iv).code)
        m == Machine(iv, Top(iv).env, hp, chunk, stmt.k = "Expr")
    IN CASE IsUserCall(stmt) -> ExecCall(iv, hp, body, stmt)
         [] stmt.k = "Assign" /\ ~IsUserCall(stmt) ->
              With(Eval(stmt.value, m),
                LAMBDA r : Goes(iv, Store(stmt.target, r.v, r.m), rest))
         [] stmt.k = "Expr" ->
              With(Eval(stmt.value, m), LAMBDA r : Goes(iv, r.m, rest))
         [] stmt.k = "If" ->
              With(Eval(stmt.test, m),
                LAMBDA t :
                Goes(iv, t.m,
                     (IF Truthy(t.v) THEN stmt.body ELSE stmt.orelse) \o rest))
         [] stmt.k = "While" ->
              With(Eval(stmt.test, m),
                LAMBDA t :
                Goes(iv, t.m, IF Truthy(t.v) THEN stmt.body \o <<stmt>> \o rest
                              ELSE rest))
         [] stmt.k = "For" ->
              With(Eval(stmt.iter.args[1], m),
                LAMBDA n : EnterFor(iv, n.v, n.m, stmt.body, rest))
         [] stmt.k = "ForIter" ->
              IF stmt.i < stmt.n
              THEN Goes(iv, [m EXCEPT !.env = Bind(m.env, "_", PyInt(stmt.i))],
                        stmt.body \o <<ForIter(stmt.i + 1, stmt.n, stmt.body)>>
                        \o rest)
              ELSE Goes(iv, m, rest)
         [] stmt.k = "Return" -> ExecReturn(iv, hp, stmt, chunk)

\* The byte runs the next statement can read: it is given one more byte for
\* as long as it meets the end of the source, up to most bytes in all, each
\* of them one of bytes.
RECURSIVE Chunks(_, _, _, _, _, _)
Chunks(iv, hp, body, chunk, most, bytes) ==
    IF ~ExecStmt(iv, hp, body, chunk).eof THEN {chunk}
    ELSE IF Len(iv.src) + Len(chunk) >= most THEN {chunk}
    ELSE {chunk}
         \cup UNION {Chunks(iv, hp, body, Append(chunk, b), most, bytes) :
                        b \in bytes}

(***************************************************************************)
(* The schema normalizer and the recursive-type detector the constructor   *)
(* calls (fastavro.schema.expand_schema, fastavro.compile._graph).         *)
(***************************************************************************)
RECURSIVE Expand(_, _)
RECURSIVE ExpandAll(_, _, _)
RECURSIVE ExpandFields(_, _, _)

\* The schemas from the i-th on, each expanded with the named types defined
\* before it.
ExpandAll(schemas, i, defs) ==
    IF i > Len(schemas) THEN [schemas |-> <<>>, defs |-> defs]
    ELSE LET first == Expand(schemas[i], defs)
             rest == ExpandAll(schemas, i + 1, first.defs)
         IN [schemas |-> <<first.schema>> \o rest.schemas, defs |-> rest.defs]

ExpandFields(fields, i, defs) ==
    IF i > Len(fields) THEN [fields |-> <<>>, defs |-> defs]
    ELSE LET first == Expand(fields[i].type, defs)
             rest == ExpandFields(fields, i + 1, first.defs)
         IN [fields |-> <<[fields[i] EXCEPT !.type = first.schema]>> \o rest.fields,
             defs |-> rest.defs]

\* A reference to a named type whose definition is complete is replaced by
\* the definition; a reference met inside the definition it names stays a
\* name.  defs maps the names of the complete definitions to them.
Expand(schema, defs) ==
    IF IsStr(schema)
    THEN IF schema.v \in DOMAIN defs
         THEN [schema |-> defs[schema.v], defs |-> defs]
         ELSE [schema |-> schema, defs |-> defs]
    ELSE IF IsList(schema)
    THEN LET r == ExpandAll(schema.v, 1, defs)
         IN [schema |-> [schema EXCEPT !.v = r.schemas], defs |-> r.defs]
    ELSE IF IsDict(schema) /\ Has(schema, "type")
    THEN CASE schema.type = "record" ->
                 LET r == ExpandFields(schema.fields, 1, defs)
                     done == [schema EXCEPT !.fields = r.fields]
                 IN [schema |-> done, defs |-> Bind(r.defs, schema.name, done)]
           [] schema.type = "array" ->
                 LET r == Expand(schema.items, defs)
                 IN [schema |-> [schema EXCEPT !.items = r.schema], defs |-> r.defs]
           [] schema.type = "map" ->
                 LET r == Expand(schema.values, defs)
                 IN [schema |-> [schema EXCEPT !.values = r.schema], defs |-> r.defs]
           [] schema.type \in {"enum", "fixed"} /\ Has(schema, "name") ->
                 [schema |-> schema, defs |-> Bind(defs, schema.name, schema)]
           [] OTHER -> [schema |-> schema, defs |-> defs]
    ELSE [schema |-> schema, defs |-> defs]

NoDefs == [x \in {} |-> [py |-> "str", v |-> "null"]]

expand_schema(schema) == Expand(schema, NoDefs).schema

\* The names the expanded tree still refers to by name, in the order met.
RECURSIVE NamedRefs(_)
RECURSIVE NamedRefsAll(_, _)
NamedRefsAll(schemas, i) ==
    IF i > Len(schemas) THEN <<>>
    ELSE NamedRefs(schemas[i]) \o NamedRefsAll(schemas, i + 1)

NamedRefs(schema) ==
    IF IsStr(schema)
    THEN IF schema.v \in PRIMITIVES THEN <<>> ELSE <<schema.v>>
    ELSE IF IsList(schema) THEN NamedRefsAll(schema.v, 1)
    ELSE IF IsDict(schema) /\ Has(schema, "type")
    THEN CASE schema.type = "record" ->
                 NamedRefsAll([i \in 1..Len(schema.fields) |->
                                  schema.fields[i].type], 1)
           [] schema.type = "array" -> NamedRefs(schema.items)
           [] schema.type = "map" -> NamedRefs(schema.values)
           [] OTHER -> <<>>
    ELSE <<>>

\* The definitions of the type called name in the tree, in the order met.
RECURSIVE Definitions(_, _)
RECURSIVE DefinitionsAll(_, _, _)
DefinitionsAll(schemas, i, name) ==
    IF i > Len(schemas) THEN <<>>
    ELSE Definitions(schemas[i], name) \o DefinitionsAll(schemas, i + 1, name)

Definitions(schema, name) ==
    IF IsList(schema) THEN DefinitionsAll(schema.v, 1, name)
    ELSE IF IsDict(schema) /\ Has(schema, "type")
    THEN (IF Has(schema, "name") /\ schema.name = name THEN <<schema>> ELSE <<>>)
         \o CASE schema.type = "record" ->
                   DefinitionsAll([i \in 1..Len(schema.fields) |->
                                      schema.fields[i].type], 1, name)
              [] schema.type = "array" -> Definitions(schema.items, name)
              [] schema.type = "map" -> Definitions(schema.values, name)
              [] OTHER -> <<>>
    ELSE <<>>

RECURSIVE Distinct(_, _)
Distinct(names, i) ==
    IF i > Len(names) THEN <<>>
    ELSE IF \E j \in 1..(i - 1) : names[j] = names[i] THEN Distinct(names, i + 1)
    ELSE <<names[i]>> \o Distinct(names, i + 1)

\* One definition for each named type the tree refers to from inside the
\* type's own definition.
find_recursive_types(schema) ==
    LET names == Distinct(NamedRefs(schema), 1)
        known == SelectSeq(names, LAMBDA n : Definitions(schema, n) # <<>>)
    IN [i \in 1..Len(known) |-> Definitions(schema, known[i])[1]]

(***************************************************************************)
(* The schemas the parser is constructed on.                               *)
(***************************************************************************)
Prim(name) == [py |-> "str", v |-> name]
Ref(name) == [py |-> "str", v |-> name]
Union(options) == [py |-> "list", v |-> options]
PrimDict(name) == [py |-> "dict", type |-> name]
Field(name, type) == [name |-> name, type |-> type]
Record(name, fields) ==
    [py |-> "dict", type |-> "record", name |-> name, fields |-> fields]
Array(items) == [py |-> "dict", type |-> "array", items |-> items]
Map(values) == [py |-> "dict", type |-> "map", values |-> values]
Enum(name, symbols) ==
    [py |-> "dict", type |-> "enum", name |-> name, symbols |-> symbols]
EnumWithDefault(name, symbols, default) ==
    [py |-> "dict", type |-> "enum", name |-> name, symbols |-> symbols,
     default |-> default]

Fixed(name, size) ==
    [py |-> "dict", type |-> "fixed", name |-> name, size |-> size]

\* A schema with a logicalType key, and a decimal with its parameters.
Logical(schema, logicalType) == [logicalType |-> logicalType] @@ schema
Decimal(schema, precision, scale) ==
    [logicalType |-> "decimal", precision |-> precision, scale |-> scale]
        @@ schema

\* A dict whose type is none the compiler knows.
Widget == [py |-> "dict", type |-> "widget"]

Node == Record("Node", <<Field("v", Prim("long")),
                         Field("next", Union(<<Prim("null"), Ref("Node")>>))>>)

Schemas ==
    << Array(Prim("long")),                                             \* 1
       Union(<<Prim("string"), Prim("int"), Prim("boolean")>>),         \* 2
       Union(<<Prim("null"), Prim("long")>>),                           \* 3
       Union(<<Prim("long"), Prim("null")>>),                           \* 4
       Union(<<Prim("null"), PrimDict("long")>>),                       \* 5
       Union(<<PrimDict("long"), Prim("null")>>),                       \* 6
       Union(<<Prim("null"), Prim("string")>>),                         \* 7
       Union(<<Prim("null"), PrimDict("string")>>),                     \* 8
       Record("R", <<Field("x", Prim("long")),
                     Field("y", Prim("string"))>>),                     \* 9
       Record("R", <<Field("x", Union(<<Prim("string"), Prim("int"),
                                        Prim("boolean")>>)),
                     Field("y", Prim("long"))>>),                       \* 10
       Array(Union(<<Prim("int"), Prim("string")>>)),                   \* 11
       Map(Prim("long")),                                               \* 12
       Map(Union(<<Prim("int"), Prim("string")>>)),                     \* 13
       EnumWithDefault("E", <<"A", "B">>, "A"),                         \* 14
       Enum("E", <<"A", "B">>),                                         \* 15
       Node,                                                            \* 16
       Record("R", <<Field("a", EnumWithDefault("E", <<"A", "B">>, "B")),
                     Field("b", Ref("E")),
                     Field("c", Node)>>),                               \* 17
       Record("T", <<Field("x", Record("a.N",
                         <<Field("next", Union(<<Prim("null"),
                                                 Ref("a.N")>>))>>)),
                     Field("y", Record("a_N",
                         <<Field("v", Prim("long")),
                           Field("next", Union(<<Prim("null"),
                                                 Ref("a_N")>>))>>))>>), \* 18
       Union(<<Prim("null"),
               Record("P", <<Field("x", Prim("long"))>>)>>),            \* 19
       Array(Array(Prim("long"))),                                      \* 20
       Record("R", <<Field("x", Union(<<Prim("null"), Prim("long")>>)),
                     Field("y", Union(<<Prim("long"), Prim("null")>>))>>), \* 21
       Fixed("F", 2),                                                   \* 22
       Decimal(PrimDict("bytes"), 4, 2),                                \* 23
       Decimal(PrimDict("bytes"), 0, 0),                                \* 24
       Decimal(Fixed("F", 2), 4, 2),                                    \* 25
       Decimal(PrimDict("bytes"), 2, 3),                                \* 26
       Decimal(PrimDict("bytes"), 4, -1),                               \* 27
       Decimal(PrimDict("int"), 4, 2),                                  \* 28
       Logical(Fixed("F", 2), "decimal"),                               \* 29
       Logical(PrimDict("string"), "uuid"),                             \* 30
       Logical(PrimDict("bytes"), "uuid"),                              \* 31
       Logical(PrimDict("int"), "date"),                                \* 32
       Logical(PrimDict("long"), "date"),                               \* 33
       Logical(PrimDict("int"), "time-millis"),                         \* 34
       Logical(PrimDict("long"), "time-millis"),                        \* 35
       Logical(PrimDict("long"), "time-micros"),                        \* 36
       Logical(PrimDict("int"), "time-micros"),                         \* 37
       Logical(PrimDict("long"), "timestamp-millis"),                   \* 38
       Logical(PrimDict("int"), "timestamp-millis"),                    \* 39
       Logical(PrimDict("long"), "timestamp-micros"),                   \* 40
       Logical(PrimDict("string"), "timestamp-micros"),                 \* 41
       Logical(PrimDict("long"), "duration"),                           \* 42
       Record("R", <<Field("a", Decimal(PrimDict("int"), 4, 2)),
                     Field("b", Decimal(PrimDict("bytes"), 4, 2)),
                     Field("c", Logical(PrimDict("string"), "date"))>>), \* 43
       Widget,                                                          \* 44
       Ref("Missing"),                                                  \* 45
       Record("R", <<Field("x", Prim("long")),
                     Field("y", Array(Map(Union(<<Prim("null"),
                                                  Widget>>))))>>),      \* 46
       [py |-> "dict", name |-> "X"],                                   \* 47
       Record("key1", <<Field("a", Map(Prim("long"))),
                        Field("b", Map(Prim("long")))>>)                \* 48
    >>

SchemaIds == 1..Len(Schemas)
\* The callers of the compiled reader: the second one is there only in the
\* runs that start with two callers.
Invocations == {1, 2}

(***************************************************************************)
(* The state: the schema handed to SchemaParser, the parser, the module    *)
(* compile() generated (its FunctionDefs), the invocations of the compiled *)
(* reader, and the heap of the dicts and lists they build.                 *)
(***************************************************************************)
VARIABLES schema_id, parser, module, inv, heap, file

vars == <<schema_id, parser, module, inv, heap, file>>

NoCounts == [x \in {} |-> 0]

NoParser ==
    [state |-> "new", schema |-> Prim("null"), variable_name_counts |-> NoCounts,
     recursive_types |-> <<>>, pure_python |-> FALSE,
     schemaless_reader |-> FALSE, err |-> ""]

\* A call of read_file: the container block_reader opened (whether it has a
\* writer schema, the num_records of its blocks), how far the loops are
\* (record records of the block-th block are read), the blocks the reader
\* was called on, the bytes each call read, the values yielded, and how
\* many times compile() was called.
NoFile ==
    [state |-> "none", writer_schema |-> FALSE, blocks |-> <<>>, block |-> 1,
     record |-> 0, calls |-> <<>>, sources |-> <<>>, yielded |-> <<>>,
     compiles |-> 0, err |-> ""]

Containers ==
    [writer_schema : BOOLEAN,
     blocks : UNION {[1..n -> 0..MaxRecords] : n \in 0..MaxBlocks}]

Invocation(status) ==
    [status |-> status, stack |-> <<>>, src |-> <<>>, result |-> PyNone,
     err |-> "", log |-> <<>>]

Init ==
    /\ schema_id \in SchemaIds
    /\ parser = NoParser
    /\ module = <<>>
    /\ inv = [i \in Invocations |->
                 Invocation(IF i = 1 THEN "idle" ELSE "off")]
    /\ heap = <<>>
    /\ file = NoFile

\* Two callers, each with a byte source of its own.
InitConcurrent ==
    /\ schema_id \in SchemaIds
    /\ parser = NoParser
    /\ module = <<>>
    /\ inv = [i \in Invocations |-> Invocation("idle")]
    /\ heap = <<>>
    /\ file = NoFile

Concurrent == \A i \in Invocations : inv[i].status # "off"
Longest == IF Concurrent THEN MaxBoth ELSE MaxSrc
Bytes == IF Concurrent \/ file.state # "none" THEN BothVals ELSE ByteVals

\* SchemaParser.__init__, lines 121-126.
__init__(schema) ==
    [NoParser EXCEPT !.state = "constructed",
                     !.schema = expand_schema(schema),
                     !.recursive_types =
                         find_recursive_types(expand_schema(schema))]

Construct ==
    /\ parser.state = "new"
    /\ parser' = __init__(Schemas[schema_id])
    /\ UNCHANGED <<schema_id, module, inv, heap, file>>

\* SchemaParser.compile, lines 138-172.
Compiled(g) ==
    IF g.err # ""
    THEN /\ parser' = [g.self EXCEPT !.state = "failed", !.err = g.err]
         /\ module' = module
    ELSE /\ parser' = [g.self EXCEPT !.state = "compiled",
                                      !.schemaless_reader = TRUE]
         /\ module' = g.stmts

Compile ==
    /\ parser.state = "constructed"
    /\ Compiled(generate_module(parser))
    /\ UNCHANGED <<schema_id, inv, heap, file>>

\* reader(src): a call of the function compile() returned, on a new source.
Entered(body) ==
    [Invocation("running") EXCEPT !.stack =
        <<Frame("reader", body[ExecModule(body)["reader"]].body,
                Bind(NoEnv, "src", PySrc))>>]

Invoke(i) ==
    /\ parser.state = "compiled"
    /\ inv[i].status = "idle"
    /\ inv' = [inv EXCEPT ![i] = Entered(module)]
    /\ UNCHANGED <<schema_id, parser, module, heap, file>>

Stepped(i, r) ==
    /\ inv' = [inv EXCEPT ![i] = r.iv]
    /\ heap' = r.heap

\* One statement of the generated code.  (A call that would stack more than
\* MaxDepth frames is not taken.)
Step(i) ==
    /\ inv[i].status = "running"
    /\ IsUserCall(Head(Top(inv[i]).code)) => Len(inv[i].stack) < MaxDepth
    /\ \E chunk \in Chunks(inv[i], heap, module, <<>>, Longest, Bytes) :
          Stepped(i, ExecStmt(inv[i], heap, module, chunk))
    /\ UNCHANGED <<schema_id, parser, module, file>>

Next ==
    \/ Construct
    \/ Compile
    \/ \E i \in Invocations : Invoke(i)
    \/ \E i \in Invocations : Step(i)

Spec == Init /\ [][Next]_vars

(***************************************************************************)
(* read_file, lines 91-104: a generator; each action below is a stretch of *)
(* its body, the reader it calls running by steps in between.              *)
(***************************************************************************)
InitFile ==
    /\ schema_id \in SchemaIds
    /\ parser = NoParser
    /\ module = <<>>
    /\ inv = [i \in Invocations |->
                 Invocation(IF i = 1 THEN "idle" ELSE "off")]
    /\ heap = <<>>
    /\ \E c \in Containers :
          file = [NoFile EXCEPT !.state = "created",
                                !.writer_schema = c.writer_schema,
                                !.blocks = c.blocks]

\* blocks = block_reader(fo, ...); the check of blocks.writer_schema;
\* sp = SchemaParser(blocks.writer_schema); reader = sp.compile().
ReadFileOpen ==
    /\ file.state = "created"
    /\ IF ~file.writer_schema
       THEN /\ file' = [file EXCEPT !.state = "failed", !.err = "ValueError"]
            /\ UNCHANGED <<parser, module>>
       ELSE /\ Compiled(generate_module(__init__(Schemas[schema_id])))
            /\ file' = [file EXCEPT
                           !.state = IF parser'.state = "compiled"
                                     THEN "iterating" ELSE "failed",
                           !.compiles = @ + 1,
                           !.err = parser'.err]
    /\ UNCHANGED <<schema_id, inv, heap>>

\* for block in blocks: for _ in range(block.num_records): where the loops
\* stand next, record records of the block-th block being read.
RECURSIVE NextRecordOneShort(_, _, _)
NextRecordOneShort(blocks, block, record) ==
    IF block > Len(blocks) THEN [block |-> block, record |-> 0]
    ELSE IF record < blocks[block] - 1 THEN [block |-> block, record |-> record]
    ELSE NextRecordOneShort(blocks, block + 1, 0)

RECURSIVE NextRecord(_, _, _)
NextRecord(blocks, block, record) ==
    IF block > Len(blocks) THEN [block |-> block, record |-> 0]
    ELSE IF record < blocks[block] THEN [block |-> block, record |-> record]
    ELSE NextRecord(blocks, block + 1, 0)

\* The loops go on to the next record and call reader(block.bytes_), or end.
ReadFileCall ==
    /\ file.state = "iterating"
    /\ inv[1].status = "idle"
    /\ LET at == NextRecord(file.blocks, file.block, file.record)
       IN IF at.block > Len(file.blocks)
          THEN /\ file' = [file EXCEPT !.state = "done", !.block = at.block,
                                        !.record = at.record]
               /\ inv' = inv
          ELSE /\ file' = [file EXCEPT !.block = at.block,
                                        !.record = at.record,
                                        !.calls = Append(@, at.block)]
               /\ inv' = [inv EXCEPT ![1] = Entered(module)]
    /\ UNCHANGED <<schema_id, parser, module, heap>>

\* yield reader(block.bytes_): the value the reader returned is yielded; an
\* exception of the reader ends the generator.
ReadFileYield ==
    /\ file.state = "iterating"
    /\ inv[1].status \in {"returned", "raised"}
    /\ IF inv[1].status = "returned"
       THEN file' = [file EXCEPT !.record = @ + 1,
                                 !.yielded = Append(@, inv[1].result),
                                 !.sources = Append(@, inv[1].src)]
       ELSE file' = [file EXCEPT !.state = "failed", !.err = inv[1].err]
    /\ inv' = [inv EXCEPT ![1] = Invocation("idle")]
    /\ UNCHANGED <<schema_id, parser, module, heap>>

NextFile ==
    \/ ReadFileOpen
    \/ ReadFileCall
    \/ \E i \in Invocations : Step(i)
    \/ ReadFileYield

(***************************************************************************)
(* What a schema's encoding decodes to: the value, as a tree, that the     *)
(* Avro encoding of the schema holds in the bytes of avail from pos on,    *)
(* the position after it, and the reads of the byte source it takes, in    *)
(* order.  A tree is a leaf or a list or dict of trees.                    *)
(***************************************************************************)
Leaf(v) == [t |-> v.t, n |-> v.n, s |-> v.s, keys |-> <<>>, vals |-> <<>>]
ListOf(vals) == [t |-> "list", n |-> 0, s |-> "", keys |-> <<>>, vals |-> vals]
DictOf(keys, vals) ==
    [t |-> "dict", n |-> 0, s |-> "", keys |-> keys, vals |-> vals]

\* The tree of a value of the heap hp.
RECURSIVE Reify(_, _, _)
Reify(hp, v, fuel) ==
    IF v.t # "ref" THEN Leaf(v)
    ELSE IF fuel = 0 \/ v.n > Len(hp) THEN Leaf(PyStr("<cycle>"))
    ELSE [t |-> hp[v.n].kind, n |-> 0, s |-> "", keys |-> hp[v.n].keys,
          vals |-> [j \in 1..Len(hp[v.n].vals) |->
                       Reify(hp, hp[v.n].vals[j], fuel - 1)]]

Ok(v, pos, reads) == [err |-> "", v |-> v, pos |-> pos, reads |-> reads]
No(err, pos) == [err |-> err, v |-> Leaf(PyNone), pos |-> pos, reads |-> <<>>]

\* The reader of the encoding of a primitive type.
WireReader(type) ==
    CASE type \in {"int", "long"} -> "read_long"
      [] type = "string" -> "read_utf8"
      [] type = "bytes" -> "read_bytes"
      [] type = "boolean" -> "read_boolean"
      [] type = "float" -> "read_float"
      [] type = "double" -> "read_double"

\* One read: role says what the bytes are (a block count, the byte size of
\* a block, a union index, an enum symbol, a map key, a value), lvl how many arrays
\* and maps the read is inside.
ReadAs(fn, role, lvl, avail, pos) ==
    LET r == ReadPrimitive(fn, avail, pos)
    IN IF r.err # "" THEN No(r.err, pos)
       ELSE Ok(Leaf(r.v), r.pos,
               <<[fn |-> fn, at |-> pos, role |-> role, lvl |-> lvl,
                  drop |-> role = "size"]>>)

\* size raw bytes, with no length before them.
ReadFixed(size, lvl, avail, pos) ==
    IF pos + size > Len(avail) THEN No("EOFError", pos)
    ELSE Ok(Leaf(PyBytes(Text(avail, pos + 1, pos + size))), pos + size,
            <<[fn |-> "read", at |-> pos, role |-> "value", lvl |-> lvl,
               drop |-> FALSE]>>)

\* The validation of a logical type: the physical types it may stand on,
\* and for a decimal a precision above 0 and a scale from 0 to the precision
\* (a missing parameter counts as 0).
Mandated(logicalType) ==
    CASE logicalType = "decimal" -> {"bytes", "fixed"}
      [] logicalType = "uuid" -> {"string"}
      [] logicalType \in {"date", "time-millis"} -> {"int"}
      [] logicalType \in {"time-micros", "timestamp-millis",
                          "timestamp-micros"} -> {"long"}
      [] OTHER -> {}

Param(schema, key) == IF Has(schema, key) THEN schema[key] ELSE 0

IsLogical(schema) == IsDict(schema) /\ Has(schema, "logicalType")

Validates(schema) ==
    /\ schema.type \in Mandated(schema.logicalType)
    /\ schema.logicalType = "decimal" =>
          /\ Param(schema, "precision") > 0
          /\ Param(schema, "scale") >= 0
          /\ Param(schema, "scale") <= Param(schema, "precision")

\* The schema without its logical annotation.
Physical(schema) == [x \in DOMAIN schema \ {"logicalType"} |-> schema[x]]

\* The parsing operation of a logical type, and the value it makes of the
\* physical value raw (a decimal's with the precision and the scale).
ParserOf(logicalType) ==
    LET i == CHOOSE j \in 1..Len(LOGICAL_READERS) :
                 LOGICAL_READERS[j][1] = logicalType
    IN LOGICAL_READERS[i][2]

Parsed(schema, raw) ==
    Leaf(PyLogical(ParserOf(schema.logicalType), raw,
                   IF schema.logicalType = "decimal"
                   THEN "/" \o ToString(Param(schema, "precision"))
                        \o "/" \o ToString(Param(schema, "scale"))
                   ELSE ""))

\* a, then what follows it: the reads of both, in order.
Seq2(a, rest(_)) == IF a.err # "" THEN a ELSE rest(a)
Joined(reads, b) == IF b.err # "" THEN b ELSE Ok(b.v, b.pos, reads \o b.reads)

\* d[key] = v on a dict tree.
TreeSet(d, key, v) ==
    IF \E i \in 1..Len(d.keys) : d.keys[i] = key
    THEN [d EXCEPT !.vals = [i \in 1..Len(d.keys) |->
                                IF d.keys[i] = key THEN v ELSE d.vals[i]]]
    ELSE [d EXCEPT !.keys = Append(d.keys, key), !.vals = Append(d.vals, v)]

RECURSIVE Expected(_, _, _, _, _)
RECURSIVE ExpectedFields(_, _, _, _, _, _, _)
RECURSIVE ExpectedBlocks(_, _, _, _, _, _, _)
RECURSIVE ExpectedItems(_, _, _, _, _, _, _, _)

\* The fields of a record from the i-th on, in declared order, into acc.
ExpectedFields(fields, i, root, lvl, avail, pos, acc) ==
    IF i > Len(fields) THEN Ok(acc, pos, <<>>)
    ELSE Seq2(Expected(fields[i].type, root, lvl, avail, pos),
           LAMBDA f :
           Joined(f.reads,
                  ExpectedFields(fields, i + 1, root, lvl, avail, f.pos,
                                 TreeSet(acc, PyStr(fields[i].name), f.v))))

\* The blocks of an array or a map: a count; when the count is negative the
\* byte size of the block; the items; the next block; a count of 0 ends it.
ExpectedBlocks(items, isMap, root, lvl, avail, pos, acc) ==
    Seq2(ReadAs("read_long", "count", lvl, avail, pos),
      LAMBDA c :
      Joined(c.reads,
        IF c.v.n = 0 THEN Ok(acc, c.pos, <<>>)
        ELSE IF c.v.n > 0
        THEN ExpectedItems(items, isMap, root, lvl, avail, c.pos, c.v.n, acc)
        ELSE Seq2(ReadAs("read_long", "size", lvl, avail, c.pos),
               LAMBDA size :
               Joined(size.reads,
                      ExpectedItems(items, isMap, root, lvl, avail, size.pos,
                                    -c.v.n, acc)))))

ExpectedItems(items, isMap, root, lvl, avail, pos, left, acc) ==
    IF left = 0 THEN ExpectedBlocks(items, isMap, root, lvl, avail, pos, acc)
    ELSE IF isMap
    THEN Seq2(ReadAs("read_utf8", "key", lvl + 1, avail, pos),
           LAMBDA key :
           Joined(key.reads,
             Seq2(Expected(items, root, lvl + 1, avail, key.pos),
               LAMBDA item :
               Joined(item.reads,
                      ExpectedItems(items, isMap, root, lvl, avail, item.pos,
                                    left - 1,
                                    TreeSet(acc, [t |-> key.v.t, n |-> key.v.n,
                                                  s |-> key.v.s], item.v))))))
    ELSE Seq2(Expected(items, root, lvl + 1, avail, pos),
           LAMBDA item :
           Joined(item.reads,
                  ExpectedItems(items, isMap, root, lvl, avail, item.pos,
                                left - 1,
                                [acc EXCEPT !.vals = Append(@, item.v)])))

Expected(schema, root, lvl, avail, pos) ==
    IF IsStr(schema)
    THEN IF schema.v = "null" THEN Ok(Leaf(PyNone), pos, <<>>)
         ELSE IF schema.v \in PRIMITIVES
         THEN ReadAs(WireReader(schema.v), "value", lvl, avail, pos)
         ELSE IF Definitions(root, schema.v) = <<>> THEN No("UnknownName", pos)
         ELSE Expected(Definitions(root, schema.v)[1], root, lvl, avail, pos)
    ELSE IF IsList(schema)
    THEN Seq2(ReadAs("read_long", "index", lvl, avail, pos),
           LAMBDA idx :
           IF idx.v.n < 0 \/ idx.v.n >= Len(schema.v)
           THEN No("UnionIndex", idx.pos)
           ELSE Joined(idx.reads,
                       Expected(schema.v[idx.v.n + 1], root, lvl, avail,
                                idx.pos)))
    ELSE CASE IsLogical(schema) ->
                Seq2(Expected(Physical(schema), root, lvl, avail, pos),
                  LAMBDA raw :
                  IF Validates(schema)
                  THEN Ok(Parsed(schema, raw.v), raw.pos, raw.reads)
                  ELSE raw)
           [] schema.type \in PRIMITIVES ->
                Expected(Prim(schema.type), root, lvl, avail, pos)
           [] schema.type = "record" ->
                ExpectedFields(schema.fields, 1, root, lvl, avail, pos,
                               DictOf(<<>>, <<>>))
           [] schema.type = "array" ->
                ExpectedBlocks(schema.items, FALSE, root, lvl, avail, pos,
                               ListOf(<<>>))
           [] schema.type = "map" ->
                ExpectedBlocks(schema.values, TRUE, root, lvl, avail, pos,
                               DictOf(<<>>, <<>>))
           [] schema.type = "fixed" ->
                ReadFixed(schema.size, lvl, avail, pos)
           [] schema.type = "enum" ->
                Seq2(ReadAs("read_long", "symbol", lvl, avail, pos),
                  LAMBDA i :
                  IF i.v.n >= 0 /\ i.v.n < Len(schema.symbols)
                  THEN Ok(Leaf(PyStr(schema.symbols[i.v.n + 1])), i.pos, i.reads)
                  ELSE IF Has(schema, "default")
                  THEN Ok(Leaf(PyStr(schema.default)), i.pos, i.reads)
                  ELSE No("EnumIndex", i.pos))

\* Encodings no schema gives a value to.
Malformed == {"UnionIndex", "EnumIndex", "ValueError", "UnknownName"}

\* What the bytes invocation i has read decode to.
E(i) == Expected(Schemas[schema_id], Schemas[schema_id], 0, inv[i].src, 0)

\* The reads an invocation made, and the reads of a decoding, without the
\* values: which reader, where, and whether the value was thrown away.
Reads(log) ==
    [j \in 1..Len(log) |->
        [fn |-> log[j].fn, at |-> log[j].at, drop |-> log[j].drop]]

\* The invocation returned what the bytes it read decode to, read no byte
\* past them, and made the reads of the decoding in its order.
Faithful(iv, e) ==
    /\ e.err = ""
    /\ e.pos = Len(iv.src)
    /\ Reify(heap, iv.result, Len(heap)) = e.v
    /\ Reads(iv.log) = Reads(e.reads)

Returned(i) == inv[i].status = "returned"

(***************************************************************************)
(* The properties of the decoding.                                         *)
(***************************************************************************)
Abs(n) == IF n < 0 THEN -n ELSE n

IsOptional(schema) ==
    /\ IsList(schema)
    /\ Len(schema.v) = 2
    /\ \E k \in 1..2 : schema.v[k] = Prim("null")
IsGeneralUnion(schema) == IsList(schema) /\ ~IsOptional(schema)

\* A dict schema of the type kind.
IsKind(schema, kind) ==
    IsDict(schema) /\ Has(schema, "type") /\ schema.type = kind

ArrayIds == {k \in SchemaIds : IsKind(Schemas[k], "array")}
MapIds == {k \in SchemaIds : IsKind(Schemas[k], "map")}
RecordIds == {k \in SchemaIds : IsKind(Schemas[k], "record")}
FixedIds == {k \in SchemaIds : IsKind(Schemas[k], "fixed")}
EnumIds == {k \in SchemaIds : IsKind(Schemas[k], "enum")}
UnionIds == {k \in SchemaIds : IsGeneralUnion(Schemas[k])}
OptionalIds == {k \in SchemaIds : IsOptional(Schemas[k])}

\* The schemas that hold a general union as a record field, an array item or
\* a map value.
HoldsUnionIds ==
    {k \in RecordIds :
        \E f \in 1..Len(Schemas[k].fields) :
            IsGeneralUnion(Schemas[k].fields[f].type)}
    \cup {k \in ArrayIds : IsGeneralUnion(Schemas[k].items)}
    \cup {k \in MapIds : IsGeneralUnion(Schemas[k].values)}

\* The record schemas that refer to a named type by its name, and those with
\* an enum for a field.
NamedRefIds == {k \in RecordIds : NamedRefs(Schemas[k]) # <<>>}
HoldsEnumIds ==
    {k \in RecordIds :
        \E f \in 1..Len(Schemas[k].fields) :
            /\ IsDict(Schemas[k].fields[f].type)
            /\ Schemas[k].fields[f].type.type = "enum"}

\* The schemas that are a logical type, or a record with one for a field.
LogicalIds ==
    {k \in SchemaIds : IsLogical(Schemas[k])}
    \cup {k \in RecordIds :
             \E f \in 1..Len(Schemas[k].fields) :
                 IsLogical(Schemas[k].fields[f].type)}

\* A schema with a node, at some depth, that is of no known kind: a name
\* that is no primitive and that root does not define, a dict with no type
\* or with a type that is none of the primitives, record, array, map, fixed
\* and enum.
RECURSIVE HasUnknownKind(_, _)
HasUnknownKind(schema, root) ==
    IF IsStr(schema)
    THEN schema.v \notin PRIMITIVES /\ Definitions(root, schema.v) = <<>>
    ELSE IF IsList(schema)
    THEN \E j \in 1..Len(schema.v) : HasUnknownKind(schema.v[j], root)
    ELSE IF ~Has(schema, "type") THEN TRUE
    ELSE CASE schema.type \in PRIMITIVES \cup {"fixed", "enum"} -> FALSE
           [] schema.type = "record" ->
                \E f \in 1..Len(schema.fields) :
                    HasUnknownKind(schema.fields[f].type, root)
           [] schema.type = "array" -> HasUnknownKind(schema.items, root)
           [] schema.type = "map" -> HasUnknownKind(schema.values, root)
           [] OTHER -> TRUE

UnknownKindIds ==
    {k \in SchemaIds : HasUnknownKind(Schemas[k], Schemas[k])}

\* The schemas two concurrent invocations are run on: the record that refers
\* to itself, and a map.
ConcurrentIds ==
    {k \in SchemaIds : Schemas[k] = Node \/ Schemas[k] = Map(Prim("long"))}

\* The specification with the parser constructed on the schemas ids only.
Over(ids) == Init /\ schema_id \in ids
OverBoth(ids) == InitConcurrent /\ schema_id \in ids

SpecArrays == Over(ArrayIds) /\ [][Next]_vars
SpecUnions == Over(UnionIds \cup HoldsUnionIds) /\ [][Next]_vars
SpecOptionals == Over(OptionalIds) /\ [][Next]_vars
SpecMaps == Over(MapIds) /\ [][Next]_vars
SpecNamed == Over(NamedRefIds) /\ [][Next]_vars
SpecEnums == Over(EnumIds \cup HoldsEnumIds) /\ [][Next]_vars
SpecLogical == Over(LogicalIds) /\ [][Next]_vars
SpecKinds == Over(UnknownKindIds \cup LogicalIds) /\ [][Next]_vars
SpecConcurrent == OverBoth(ConcurrentIds) /\ [][Next]_vars

\* read_file on containers whose writer schema is an enum, or one that does
\* not compile.
FileIds == {k \in SchemaIds : Schemas[k] = Enum("E", <<"A", "B">>)
                               \/ Schemas[k] = Widget}
OverFile(ids) == InitFile /\ schema_id \in ids
SpecFile == OverFile(FileIds) /\ [][NextFile]_vars

\* |c1| + ... + |ck| over the block counts of the outermost array or map
\* among the reads from the j-th on.
RECURSIVE SumCounts(_, _, _)
SumCounts(reads, log, j) ==
    IF j > Len(reads) THEN 0
    ELSE (IF reads[j].role = "count" /\ reads[j].lvl = 0
          THEN Abs(log[j].v.n) ELSE 0)
         + SumCounts(reads, log, j + 1)

\* C1: an array decoded from a well-formed block sequence stops at the zero
\* count (it reads no byte past it and raises nothing), holds exactly
\* |c1|+...+|ck| elements, the i-th the value decoded for the i-th item read;
\* a long is read and discarded exactly after each negative count, and none
\* after a positive count.
ArrayBlockProtocol(iv, e) ==
    /\ e.err = "" => e.pos = Len(iv.src) /\ iv.status # "raised"
    /\ iv.status = "returned" /\ e.err \notin Malformed =>
          /\ Faithful(iv, e)
          /\ Len(heap[iv.result.n].vals) = SumCounts(e.reads, iv.log, 1)
          /\ \A j \in 1..Len(iv.log) :
                iv.log[j].drop <=>
                    /\ j > 1
                    /\ e.reads[j - 1].role = "count"
                    /\ iv.log[j - 1].v.n < 0

C1_ArrayBlockProtocol ==
    \A i \in Invocations :
        schema_id \in ArrayIds => ArrayBlockProtocol(inv[i], E(i))

\* An array of a negative block and a positive block was decoded.
NegativeAndPositiveBlock(iv, e) ==
    /\ iv.status = "returned"
    /\ Faithful(iv, e)
    /\ Len(heap[iv.result.n].vals) >= 2
    /\ \E j \in 1..Len(iv.log) : iv.log[j].drop
    /\ \E j \in 1..Len(iv.log) : e.reads[j].role = "count" /\ iv.log[j].v.n > 0

C1_NegativeAndPositiveBlock ==
    \E i \in Invocations :
        schema_id \in ArrayIds /\ NegativeAndPositiveBlock(inv[i], E(i))

\* C2: a union that is not the two-branch-with-null case reads one long
\* index first and, for an index i in 0..N-1, decodes what follows with the
\* reader of branch i and no other, and the result is that value; the same
\* holds of such a union in a record field, an array item or a map value.
UnionDispatch(options, iv) ==
    /\ Len(iv.log) = 2
    /\ iv.log[1].fn = "read_long"
    /\ iv.log[1].at = 0
    /\ iv.log[1].v.n \in 0..(Len(options) - 1)
    /\ iv.log[2].fn = WireReader(options[iv.log[1].v.n + 1].v)
    /\ iv.log[2].at = read_long(iv.src, 0).pos
    /\ iv.result = iv.log[2].v

UnionDecoded(iv, e) ==
    iv.status = "returned" /\ e.err \notin Malformed =>
        /\ schema_id \in UnionIds => UnionDispatch(Schemas[schema_id].v, iv)
        /\ Faithful(iv, e)

C2_UnionDispatch ==
    \A i \in Invocations :
        schema_id \in UnionIds \cup HoldsUnionIds => UnionDecoded(inv[i], E(i))

\* The union ["string", "int", "boolean"] decoded index 1 and then an int.
C2_IndexOneIsInt ==
    \E i \in Invocations :
        /\ schema_id \in UnionIds
        /\ Returned(i)
        /\ inv[i].log[1].v.n = 1
        /\ Schemas[schema_id].v[2] = Prim("int")
        /\ inv[i].result.t = "int"

\* C3: a union index outside 0..N-1 is an error wherever the union stands:
\* no invocation that read one returns a value.
C3_IndexOutOfRangeRaises ==
    \A i \in Invocations : Returned(i) => E(i).err # "UnionIndex"

\* The generated code run to its end on the source avail.
RECURSIVE Run(_, _, _, _)
Run(iv, hp, body, avail) ==
    IF iv.status # "running" THEN [iv |-> iv, heap |-> hp]
    ELSE With(ExecStmt(iv, hp, body,
                       SubSeq(avail, Len(iv.src) + 1, Len(avail))),
           LAMBDA r : Run(r.iv, r.heap, body, avail))

RunReader(body, avail) == Run(Entered(body), <<>>, body, avail)

\* The position of the branch of an optional union that is not null, the
\* branch, and the union with the branch written {"type": T}.
Populated(schema) == IF schema.v[1] = Prim("null") THEN 1 ELSE 0
Branch(schema) == schema.v[Populated(schema) + 1]
AsStatement(schema) ==
    [schema EXCEPT !.v[Populated(schema) + 1] = PrimDict(Branch(schema).v)]

ModuleOf(schema) == generate_module(__init__(schema)).stmts
ReaderOf(body) == body[ExecModule(body)["reader"]].body

SameOutcome(iv, hp, other) ==
    /\ other.iv.status = iv.status
    /\ other.iv.err = iv.err
    /\ other.iv.src = iv.src
    /\ other.iv.log = iv.log
    /\ Reify(other.heap, other.iv.result, Len(other.heap))
          = Reify(hp, iv.result, Len(hp))

\* C4: an optional union reads one long index; when it is the position p of
\* the branch T the result is what the following bytes decode to as T, and
\* otherwise it is null and no more bytes are read; the outcome is the same
\* when T is compiled as a conditional expression and as an if statement.
OptionalDecoded(schema, iv, e) ==
    iv.status = "returned" =>
        /\ iv.log[1].fn = "read_long"
        /\ iv.log[1].at = 0
        /\ IF iv.log[1].v.n = Populated(schema)
           THEN Faithful(iv, e)
           ELSE /\ iv.result = PyNone
                /\ Len(iv.log) = 1
                /\ Len(iv.src) = read_long(iv.src, 0).pos

SameAsStatement(iv, statement) ==
    iv.status \in {"returned", "raised"} =>
        /\ ReaderOf(module)[1].value.k = "IfExp"
        /\ ReaderOf(statement)[1].k = "If"
        /\ SameOutcome(iv, heap, RunReader(statement, iv.src))

C4_OptionalUnion ==
    \A i \in Invocations :
        schema_id \in OptionalIds =>
            /\ OptionalDecoded(Schemas[schema_id], inv[i], E(i))
            /\ IsStr(Branch(Schemas[schema_id])) =>
                  SameAsStatement(inv[i],
                                  ModuleOf(AsStatement(Schemas[schema_id])))

\* ["null", "long"], compiled as a conditional expression, decoded index 1
\* and a long.
C4_PopulatedBranch ==
    \E i \in Invocations :
        /\ schema_id \in OptionalIds
        /\ Returned(i)
        /\ IsStr(Branch(Schemas[schema_id]))
        /\ ReaderOf(module)[1].value.k = "IfExp"
        /\ inv[i].log[1].v.n = Populated(Schemas[schema_id])
        /\ Len(inv[i].log) = 2
        /\ inv[i].result = inv[i].log[2].v

\* The names of the functions the statements from the j-th on call.
RECURSIVE CallSites(_, _)
CallSites(stmts, j) ==
    IF j > Len(stmts) THEN {}
    ELSE (CASE IsUserCall(stmts[j]) -> {stmts[j].value.func.id}
            [] stmts[j].k = "If" ->
                 CallSites(stmts[j].body, 1) \cup CallSites(stmts[j].orelse, 1)
            [] stmts[j].k \in {"While", "For"} -> CallSites(stmts[j].body, 1)
            [] OTHER -> {})
         \cup CallSites(stmts, j + 1)

ModuleCallSites == UNION {CallSites(module[f].body, 1) : f \in 1..Len(module)}

Occurs(part, whole) ==
    \E o \in 0..(Len(whole) - Len(part)) :
        SubSeq(whole, o + 1, o + Len(part)) = part

\* The fields of the record schema k whose type is the name of a named type
\* that is not in the recursive type set.
NonCyclicRefs(k) ==
    {f \in 1..Len(Schemas[k].fields) :
        /\ IsStr(Schemas[k].fields[f].type)
        /\ Schemas[k].fields[f].type.v \notin PRIMITIVES
        /\ Schemas[k].fields[f].type.v \notin RecursiveNames(parser)}


\* C5: a reference to a named type is compiled to a call of the type's
\* procedure when the name is in the recursive type set, and otherwise to
\* the reader of the type's definition, generated in place: compilation
\* succeeds, the procedures called are those of the recursive names, the
\* statements of the definition's reader stand where the reference is, and
\* the reference decodes as the definition does.
InlinedAt(schema, f) ==
    Occurs(_gen_reader(parser,
                       Definitions(schema, schema.fields[f].type.v)[1],
                       Name("src"),
                       Subscript(ReaderOf(module)[1].target,
                                 Constant(PyStr(schema.fields[f].name)))).stmts,
           ReaderOf(module))

NamedRefDecoded(iv, e) ==
    /\ iv.status = "returned"
    /\ NonCyclicRefs(schema_id) # {}
    /\ e.err \notin Malformed
    => Faithful(iv, e)

InlinedAndCalled(iv, e) ==
    /\ NonCyclicRefs(schema_id) # {}
    /\ ModuleCallSites # {}
    /\ iv.status = "returned"
    /\ Faithful(iv, e)
    /\ \E j \in 1..Len(iv.log) : e.reads[j].role = "index" /\ iv.log[j].v.n = 1

ProcedureOf(a) ==
    ExecModule(module)[_named_type_reader_name(parser.recursive_types[a].name)]

\* C6: the module holds one procedure for each name of the recursive type
\* set, compiled from the definition of that name; no two names are bound
\* to one procedure, and the name a call site of n calls is bound to the
\* procedure compiled from the definition of n.
C6_OneProcedurePerName ==
    parser.state = "compiled" =>
        /\ Len(module) = 1 + Len(parser.recursive_types)
        /\ \A a, b \in 1..Len(parser.recursive_types) :
              a # b => ProcedureOf(a) # ProcedureOf(b)
        /\ \A a \in 1..Len(parser.recursive_types) : ProcedureOf(a) = 1 + a

\* The schemas with a recursive record each of whose recursive names has a
\* procedure of its own.
SelfRefIds ==
    {k \in RecordIds :
        LET types == find_recursive_types(expand_schema(Schemas[k]))
        IN /\ types # <<>>
           /\ \A a, b \in 1..Len(types) :
                 a # b => _clean_name(types[a].name) # _clean_name(types[b].name)}

HasKey(tree, name) == \E j \in 1..Len(tree.keys) : tree.keys[j] = PyStr(name)
FieldOf(tree, name) ==
    tree.vals[CHOOSE j \in 1..Len(tree.keys) : tree.keys[j] = PyStr(name)]

\* How many records deep a tree goes down its "next" fields.
RECURSIVE NestDepth(_)
NestDepth(tree) ==
    IF tree.t = "dict" /\ HasKey(tree, "next")
    THEN 1 + NestDepth(FieldOf(tree, "next"))
    ELSE 0

\* The recursive record of a decoded value: the value, or its field of the
\* recursive type.
RootNode(tree) == IF HasKey(tree, "next") THEN tree ELSE FieldOf(tree, "c")

\* The dicts and lists the local variables of a frame refer to.
Records(frame) ==
    {frame.env[x].n : x \in {y \in DOMAIN frame.env : frame.env[y].t = "ref"}}

\* How many levels the data read has: one for each index of the optional
\* field.
Levels(e) ==
    Cardinality({j \in 1..Len(e.reads) : e.reads[j].role = "index"})

NestedAsDeepAsData(iv, e) ==
    /\ iv.status = "returned" /\ e.err \notin Malformed =>
          /\ Faithful(iv, e)
          /\ NestDepth(RootNode(Reify(heap, iv.result, Len(heap)))) = Levels(e)
    /\ \A a, b \in 1..Len(iv.stack) :
          a # b => Records(iv.stack[a]) \cap Records(iv.stack[b]) = {}

C7_OwnRecordPerLevel ==
    \A i \in Invocations :
        schema_id \in SelfRefIds => NestedAsDeepAsData(inv[i], E(i))

C7_EnclosingUnchanged ==
    \A i \in Invocations :
        schema_id \in SelfRefIds /\ Len(inv[i].stack) >= 2 =>
            \A a \in 1..(Len(inv[i].stack) - 1) :
                \A r \in Records(inv[i].stack[a]) :
                    \A k \in 1..Len(heap[r].keys) :
                        /\ heap'[r].keys[k] = heap[r].keys[k]
                        /\ heap'[r].vals[k] = heap[r].vals[k]

\* C7: a record with an optional field of its own type, decoded from data
\* nested n deep, returns a value nested n deep; the frames of the
\* procedure on the stack each build a record of their own, and no step
\* taken inside a nested call changes a field stored in the record of an
\* enclosing level.
C7_RecursiveRecord ==
    []C7_OwnRecordPerLevel /\ [][C7_EnclosingUnchanged]_vars

\* A recursive record nested three deep was decoded.
C7_ThreeDeep ==
    \E i \in Invocations :
        /\ schema_id \in SelfRefIds
        /\ Returned(i)
        /\ NestDepth(RootNode(Reify(heap, inv[i].result, Len(heap)))) >= 3

\* C8: a record decode that returns has read its fields in declared order
\* and returns a new mapping with one entry for each declared field, each
\* the value decoded for the field.
RecordDecoded(fields, iv, e) ==
    iv.status = "returned" =>
        /\ iv.result.t = "ref"
        /\ heap[iv.result.n].keys =
              [f \in 1..Len(fields) |-> PyStr(fields[f].name)]
        /\ Faithful(iv, e)

C8_RecordFields ==
    \A i \in Invocations :
        schema_id \in RecordIds =>
            RecordDecoded(Schemas[schema_id].fields, inv[i], E(i))

\* The index of the read of the value that follows the read j of a key.
ValueAfter(reads, j) ==
    CHOOSE v \in (j + 1)..Len(reads) :
        /\ reads[v].role = "value"
        /\ \A w \in (j + 1)..(v - 1) : reads[w].role # "value"

KeyReads(reads) == {j \in 1..Len(reads) : reads[j].role = "key"}

\* The last of the reads of the key read at j.
LastOf(reads, log, j) ==
    CHOOSE last \in KeyReads(reads) :
        /\ log[last].v = log[j].v
        /\ \A later \in KeyReads(reads) : log[later].v = log[j].v => later <= last

\* The key read at j is once in the mapping d, with the value read after
\* the last read of the key.
HeldOnce(d, reads, log, j) ==
    \E k \in 1..Len(d.keys) :
        /\ d.keys[k] = log[j].v
        /\ \A k2 \in 1..Len(d.keys) : d.keys[k2] = log[j].v => k2 = k
        /\ d.vals[k] = log[ValueAfter(reads, LastOf(reads, log, j))].v

\* C9: a map reads for each item of each block a string key and then a
\* value, and inserts it in a new mapping; the mapping holds each key once,
\* with the value of the last occurrence of the key in the order read.
MapDecoded(iv, e) ==
    iv.status = "returned" /\ e.err \notin Malformed =>
        /\ Faithful(iv, e)
        /\ Cardinality(KeyReads(e.reads)) = SumCounts(e.reads, iv.log, 1)
        /\ \A j \in KeyReads(e.reads) :
              /\ iv.log[j].fn = "read_utf8"
              /\ j < Len(iv.log)
              /\ iv.log[j + 1].at = read_utf8(iv.src, iv.log[j].at).pos
              /\ HeldOnce(heap[iv.result.n], e.reads, iv.log, j)
        /\ Len(heap[iv.result.n].keys)
              = Cardinality({iv.log[j].v : j \in KeyReads(e.reads)})

C9_MapLastWriteWins ==
    \A i \in Invocations : schema_id \in MapIds => MapDecoded(inv[i], E(i))

\* A map in which a key occurs twice, with two values, was decoded.
KeyTwice(iv, e) ==
    /\ iv.status = "returned"
    /\ Faithful(iv, e)
    /\ \E j, l \in KeyReads(e.reads) :
          /\ j < l
          /\ iv.log[j].v = iv.log[l].v
          /\ iv.log[ValueAfter(e.reads, j)].v # iv.log[ValueAfter(e.reads, l)].v

C9_KeyTwice ==
    \E i \in Invocations : schema_id \in MapIds /\ KeyTwice(inv[i], E(i))

InSymbols(schema, index) == index >= 0 /\ index < Len(schema.symbols)

\* What the index read looks up in the symbols of an enum.
Symbol(schema, index) ==
    IF InSymbols(schema, index) THEN PyStr(schema.symbols[index + 1])
    ELSE PyStr(schema.default)

\* C10: an enum reads one long index i and returns symbols[i] when i is in
\* 0..len(symbols)-1, and for any other index the default symbol when the
\* schema declares one; so does an enum that is a field of a record.
EnumDecoded(schema, iv) ==
    iv.status = "returned" =>
        /\ Len(iv.log) = 1
        /\ iv.log[1].fn = "read_long"
        /\ iv.log[1].at = 0
        /\ Len(iv.src) = read_long(iv.src, 0).pos
        /\ InSymbols(schema, iv.log[1].v.n) \/ Has(schema, "default") =>
              iv.result = Symbol(schema, iv.log[1].v.n)

EnumFieldDecoded(schema, iv, e) ==
    iv.status = "returned" /\ e.err \notin Malformed =>
        \A f \in 1..Len(schema.fields) :
            /\ IsDict(schema.fields[f].type)
            /\ schema.fields[f].type.type = "enum"
            /\ InSymbols(schema.fields[f].type, iv.log[f].v.n)
               \/ Has(schema.fields[f].type, "default")
            => /\ e.reads[f].role = "symbol"
               /\ heap[iv.result.n].keys[f] = PyStr(schema.fields[f].name)
               /\ heap[iv.result.n].vals[f]
                     = Symbol(schema.fields[f].type, iv.log[f].v.n)

C10_EnumLookup ==
    \A i \in Invocations :
        /\ schema_id \in EnumIds => EnumDecoded(Schemas[schema_id], inv[i])
        /\ schema_id \in HoldsEnumIds =>
              EnumFieldDecoded(Schemas[schema_id], inv[i], E(i))

\* An enum with a default decoded an index that is not in its symbols.
C10_DefaultTaken ==
    \E i \in Invocations :
        /\ schema_id \in EnumIds
        /\ Returned(i)
        /\ Has(Schemas[schema_id], "default")
        /\ ~InSymbols(Schemas[schema_id], inv[i].log[1].v.n)
        /\ inv[i].result = PyStr(Schemas[schema_id].default)

\* C11: a fixed of size n reads no length and exactly n raw bytes: an
\* invocation that returns has made the one read src.read(n) at the start of
\* the source and returns a byte string of n bytes, the n bytes of the source
\* (a source that holds fewer than n bytes makes the invocation fail).
FixedDecoded(schema, iv) ==
    iv.status = "returned" =>
        /\ Len(iv.log) = 1
        /\ iv.log[1].fn = "read"
        /\ iv.log[1].at = 0
        /\ iv.result.t = "bytes"
        /\ Len(iv.result.s) = schema.size
        /\ Len(iv.src) = schema.size
        /\ iv.result.s = Text(iv.src, 1, schema.size)

C11_FixedRead ==
    \A i \in Invocations :
        schema_id \in FixedIds => FixedDecoded(Schemas[schema_id], inv[i])

\* A logical node that does not pass validation, and the schema with the
\* annotation of every such node removed.
FallsBack(schema) == IsLogical(schema) /\ ~Validates(schema)

Degraded(schema) ==
    IF FallsBack(schema) THEN Physical(schema)
    ELSE IF IsDict(schema) /\ schema.type = "record"
    THEN [schema EXCEPT !.fields =
             [f \in 1..Len(schema.fields) |->
                 IF FallsBack(schema.fields[f].type)
                 THEN Field(schema.fields[f].name,
                            Physical(schema.fields[f].type))
                 ELSE schema.fields[f]]]
    ELSE schema

HoldsFallsBack(schema) == Degraded(schema) # schema

\* The logical parsing operations the statements from the j-th on call.
RECURSIVE ParserCalls(_, _)
ParserCalls(stmts, j) ==
    IF j > Len(stmts) THEN <<>>
    ELSE (IF /\ stmts[j].k = "Assign"
             /\ stmts[j].value.k = "Call"
             /\ stmts[j].value.func.k = "Name"
             /\ stmts[j].value.func.id \in LogicalReaderNames
          THEN <<stmts[j].value>>
          ELSE <<>>) \o ParserCalls(stmts, j + 1)

\* A fixed read from a source that ends before its size (see C11).
CutShort(schema, iv) ==
    IsDict(schema) /\ schema.type = "fixed" /\ Len(iv.src) < schema.size

\* C12: a logical node with an unknown name, with parameters that fail
\* validation or over a wrong physical type does not make compile() raise;
\* what is compiled decodes as the schema without the annotation does (the
\* same statements when the node is the whole schema), and an invocation
\* that returns yields the physical value, unparsed.
LogicalFallback(schema, iv, e) ==
    /\ parser.state # "failed"
    /\ parser.state = "compiled" /\ FallsBack(schema) =>
          module = ModuleOf(Physical(schema))
    /\ iv.status \in {"returned", "raised"} =>
          SameOutcome(iv, heap, RunReader(ModuleOf(Degraded(schema)), iv.src))
    /\ iv.status = "returned" =>
          /\ ~CutShort(schema, iv) => Faithful(iv, e)
          /\ FallsBack(schema) =>
                /\ iv.result.t \notin LogicalReaderNames
                /\ iv.result = iv.log[1].v

RECURSIVE FieldParsers(_, _)
FieldParsers(fields, i) ==
    IF i > Len(fields) THEN <<>>
    ELSE (IF IsLogical(fields[i].type) /\ Validates(fields[i].type)
          THEN <<ParserOf(fields[i].type.logicalType)>>
          ELSE <<>>) \o FieldParsers(fields, i + 1)

ParsersOf(schema) ==
    IF IsLogical(schema)
    THEN IF Validates(schema) THEN <<ParserOf(schema.logicalType)>> ELSE <<>>
    ELSE FieldParsers(schema.fields, 1)

\* The keyword arguments a parsing operation is to be called with.
ParserKeywords(schema) ==
    IF schema.logicalType = "decimal"
    THEN <<keyword("writer_schema",
                   DictLiteral(<<Constant(PyStr("precision")),
                                 Constant(PyStr("scale"))>>,
                               <<Constant(PyInt(Param(schema, "precision"))),
                                 Constant(PyInt(Param(schema, "scale")))>>))>>
    ELSE <<>>

\* C13: a logical node is compiled to a read of its physical type into a
\* variable followed by a call of the matching parsing operation on that
\* variable (a decimal's with its precision and scale) exactly when it
\* passes validation; no parsing operation is called for any other node,
\* and a value returned is the parsed value exactly for the nodes that pass.
ReadThenParse(schema, body) ==
    /\ Len(body) = 3
    /\ body[1].k = "Assign"
    /\ body[1].target.k = "Name"
    /\ body[1].value = ReaderOf(ModuleOf(Physical(schema)))[1].value
    /\ body[2] = Assign(body[3].value,
                        Call(Name(ParserOf(schema.logicalType)),
                             <<body[1].target>>, ParserKeywords(schema)))

LogicalCompiled(schema, iv, e) ==
    /\ parser.state = "compiled" =>
          /\ [j \in 1..Len(ParserCalls(ReaderOf(module), 1)) |->
                 ParserCalls(ReaderOf(module), 1)[j].func.id] = ParsersOf(schema)
          /\ IsLogical(schema) =>
                (Validates(schema) <=> ReadThenParse(schema, ReaderOf(module)))
    /\ iv.status = "returned" /\ ~CutShort(schema, iv) =>
          /\ Faithful(iv, e)
          /\ IsLogical(schema) =>
                (Validates(schema) <=> iv.result.t \in LogicalReaderNames)

C13_LogicalCompiled ==
    \A i \in Invocations :
        schema_id \in LogicalIds =>
            LogicalCompiled(Schemas[schema_id], inv[i], E(i))

\* A decimal with precision 4 and scale 2 over bytes returned the value
\* read_decimal made of the bytes read, with that precision and scale.
C13_DecimalParsed ==
    \E i \in Invocations :
        /\ IsLogical(Schemas[schema_id])
        /\ Schemas[schema_id].type = "bytes"
        /\ Validates(Schemas[schema_id])
        /\ Returned(i)
        /\ Len(inv[i].log[1].v.s) > 0
        /\ inv[i].result =
              PyLogical("read_decimal", inv[i].log[1].v, "/4/2")

\* C14: on a schema with a node of no known kind, at any depth, compile()
\* ends in an error: no module is kept, schemaless_reader is not set, and
\* there is no reader to invoke.
NoPlan ==
    /\ parser.state # "compiled"
    /\ module = <<>>
    /\ ~parser.schemaless_reader
    /\ parser.state = "failed" => parser.err \in {"NotImplementedError", "KeyError"}
    /\ \A i \in Invocations : inv[i].status \in {"idle", "off"}

C14_UnknownKindAborts == schema_id \in UnknownKindIds => NoPlan

\* compile() failed on a record with a node of no known kind inside an
\* array, a map and a union of a field that follows a field it compiled.
C14_AbortedInside ==
    /\ schema_id \in UnknownKindIds \cap RecordIds
    /\ parser.state = "failed"
    /\ parser.err = "NotImplementedError"
    /\ {"R", "array_val", "key"} \subseteq DOMAIN parser.variable_name_counts

\* The dicts and lists an invocation holds: those its frames' variables and
\* its result refer to, and those these hold, and so on.
RefsIn(vals) == {vals[j].n : j \in {l \in 1..Len(vals) : vals[l].t = "ref"}}

Roots(iv) ==
    (IF iv.result.t = "ref" THEN {iv.result.n} ELSE {})
    \cup UNION {{iv.stack[a].env[x].n :
                   x \in {y \in DOMAIN iv.stack[a].env :
                             iv.stack[a].env[y].t = "ref"}} :
                a \in 1..Len(iv.stack)}

RECURSIVE Reach(_, _)
Reach(hp, held) ==
    LET more == held \cup UNION {RefsIn(hp[a].vals) : a \in held}
    IN IF more = held THEN held ELSE Reach(hp, more)

Owned(i) == Reach(heap, Roots(inv[i]))

\* The outcome of the reader run alone on the bytes the invocation read.
Alone(iv) == RunReader(module, iv.src)

C15_Isolated ==
    /\ \A i \in Invocations :
          inv[i].status \in {"returned", "raised"} =>
              SameOutcome(inv[i], heap, Alone(inv[i]))
    /\ \A i, j \in Invocations : i # j => Owned(i) \cap Owned(j) = {}

C15_OwnWrites ==
    /\ Len(heap') >= Len(heap)
    /\ \A j \in Invocations :
          inv'[j] = inv[j] => \A a \in Owned(j) : heap'[a] = heap[a]

\* C15: two invocations of one compiled reader, each on a byte source of its
\* own and with their statements interleaved in every order, each end as the
\* reader run alone on the same bytes does (same value, same reads, same
\* error); at no time does one hold a dict or list the other holds, and a
\* step of one changes nothing the other holds.
C15_Concurrent == []C15_Isolated /\ [][C15_OwnWrites]_vars

\* Two invocations, each inside the shared procedure of the record that
\* refers to itself, allocated their records in turn, and both returned.
C15_Interleaved ==
    /\ Concurrent
    /\ schema_id \in SelfRefIds
    /\ \A i \in Invocations : Returned(i) /\ Cardinality(Owned(i)) >= 2
    /\ \E a, c \in Owned(1) : \E b \in Owned(2) : a < b /\ b < c

(***************************************************************************)
(* read_file                                                               *)
(***************************************************************************)
\* The calls of the reader made on the block-th block.
CallsOn(block) == {k \in 1..Len(file.calls) : file.calls[k] = block}

RECURSIVE Total(_)
Total(blocks) == IF blocks = <<>> THEN 0 ELSE Head(blocks) + Total(Tail(blocks))

\* Without a writer schema read_file fails with a ValueError before any
\* parser is constructed or compiled and before anything is read.
NoWriterSchema ==
    ~file.writer_schema =>
        /\ file.state \in {"created", "failed"}
        /\ file.state = "failed" => file.err = "ValueError"
        /\ parser = NoParser /\ module = <<>>
        /\ file.compiles = 0
        /\ file.calls = <<>> /\ file.yielded = <<>>
        /\ inv[1].status = "idle"

\* The reader is compiled once, before the first block is touched.
CompiledOnce ==
    /\ file.compiles <= 1
    /\ file.calls # <<>> => file.compiles = 1 /\ parser.state = "compiled"
    /\ file.state \in {"iterating", "done"} => file.compiles = 1

\* The reader is called on the blocks in the container's order, no more than
\* num_records times on a block, and a block is left only when exhausted.
BlockOrder ==
    /\ \A k, l \in 1..Len(file.calls) : k <= l => file.calls[k] <= file.calls[l]
    /\ \A b \in 1..Len(file.blocks) : Cardinality(CallsOn(b)) <= file.blocks[b]
    /\ \A k \in 1..Len(file.calls) : \A b \in 1..(file.calls[k] - 1) :
          Cardinality(CallsOn(b)) = file.blocks[b]

\* One value is yielded per returned call, and it is what the bytes that
\* call consumed decode to under the writer schema.
OnePerCall ==
    /\ Len(file.yielded) <= Len(file.calls)
    /\ Len(file.calls) <= Len(file.yielded) + 1
    /\ Len(file.sources) = Len(file.yielded)
    /\ \A k \in 1..Len(file.yielded) :
          LET e == Expected(Schemas[schema_id], Schemas[schema_id], 0,
                            file.sources[k], 0)
          IN /\ e.err = ""
             /\ e.pos = Len(file.sources[k])
             /\ Reify(heap, file.yielded[k], Len(heap)) = e.v

\* When the generator is exhausted every block has given num_records values.
Exhausted ==
    file.state = "done" =>
        /\ \A b \in 1..Len(file.blocks) : Cardinality(CallsOn(b)) = file.blocks[b]
        /\ Len(file.yielded) = Total(file.blocks)

\* C16: read_file raises ValueError when the container has no writer schema,
\* otherwise compiles the reader once and yields, block after block in
\* order, exactly num_records values per block, each the reader's value.
C16_ReadFile ==
    file.state # "none" =>
        NoWriterSchema /\ CompiledOnce /\ BlockOrder /\ OnePerCall /\ Exhausted

\* A container of two blocks of 2 and 1 records read to its end, with
\* different values among the three yielded.
C16_TwoBlocksRead ==
    /\ file.state = "done"
    /\ file.blocks = <<2, 1>>
    /\ file.calls = <<1, 1, 2>>
    /\ file.yielded = <<PyStr("A"), PyStr("B"), PyStr("A")>>

(***************************************************************************)
(* new_variable                                                            *)
(***************************************************************************)
\* What the k-th call (from 0) of new_variable(name) returned.
Given(name, k) == IF k = 0 THEN name ELSE name \o ToString(k)

\* The calls of new_variable made so far: the name asked for, and how many
\* calls with that name came before.
Calls(counts) ==
    UNION {{<<name, k>> : k \in 0..(counts[name] - 1)} : name \in DOMAIN counts}

\* C17: no two calls of new_variable on one SchemaParser return the same
\* name.
C17_NamesDistinct ==
    \A c, d \in Calls(parser.variable_name_counts) :
        c # d => Given(c[1], c[2]) # Given(d[1], d[2])

====
